---- MODULE Spec2Model ----
(***************************************************************************)
(* Model of the agent orchestration core of felarof99/agent:               *)
(*   - MessageManager (the context store with token-budgeted trimming),    *)
(*   - ToolManager (the name-keyed tool registry),                         *)
(*   - BrowserAgent.execute (classification, the simple and the multi-step *)
(*     strategy, the turn executor and the tool dispatch),                 *)
(*   - Controller.run and Controller.cancel over BaseAgent.execute,        *)
(*   - Agent.run of lib/agent/core with its event emitter,                 *)
(*   - BrowserAgent.execute of the variant that keeps its plan as a queue. *)
(* SpecMM explores the MessageManager alone under a small budget; Spec     *)
(* explores one BrowserAgent.execute invocation over the same store;       *)
(* SpecController explores overlapping run() calls of one Controller;      *)
(* SpecCopies explores the arrays getMessages() and fork() hand out;       *)
(* SpecCore (FairSpecCore with weak fairness) explores one Agent.run call; *)
(* SpecQueue explores one execute call of the plan-queue variant.          *)
(***************************************************************************)
EXTENDS Integers, Sequences, FiniteSets, TLC

VARIABLES
  messages,            \* MessageManager.messages
  maxTokens,           \* MessageManager.maxTokens
  lastOp,              \* history: the last MessageManager operation, its argument and the store before it
  registered,          \* ToolManager.tools: the names the registry holds
  pc,                  \* where the execute() call is suspended ("idle" before, "done" after)
  strategy,            \* "none" | "simple" | "multi": the strategy execute delegated to
  classification,      \* how the classification step of this invocation went
  attempt,             \* loop variable of _executeSimpleTaskStrategy
  totalStepsExecuted,  \* local of _executeMultiStepStrategy
  plan,                \* steps of the current plan the for loop has not reached yet
  toolCalls,           \* tool calls of the current turn the for loop has not finished
  wasDoneToolCalled,   \* local of _processToolCalls
  outcome,             \* "pending" | "resolved" | "rejected": how execute settled
  error,               \* message of the error execute rejected with ("" if none)
  events,              \* taskClassified, complete and fatal error events emitted so far
  turns,               \* history: number of _executeSingleTurn calls
  turnStart,           \* history: length of the store when the current turn began
  issued,              \* history: tool_calls of the current turn's model response
  plannerCalls,        \* history: number of planner_tool invocations
  validatorCalls,      \* history: number of _validateTaskCompletion calls
  verdict,             \* isComplete of the last _validateTaskCompletion of this plan round
  validation,          \* history: how the validator behaved in the last validation step
  nextCallId,          \* number the model puts in the id of its next tool call
  faults,              \* off-nominal answers the environment may still give
  nominal,             \* collaborators that have already answered nominally
  aborted,             \* executionContext.abortController.signal.aborted
  streamCancelled,     \* history: the signal was raised during the current turn's stream
  ctl,                 \* the Controller: its execution context's flags and its run() calls
  invoked,             \* history: identifiers of the calls of the current turn whose tool.func was called
  heap,                \* the arrays getMessages() and fork() handed out, and whether they alias the store's
  toolTrace,           \* history: the store before and after the last tool.func call, and the last snapshot a tool obtained
  queue,               \* the BrowserAgent that keeps its plan as a queue (currentPlan): its fields and its execute() call
  core                 \* the core Agent: its configuration, its event handler and its run() call

agentVars == <<registered, pc, strategy, classification, attempt, totalStepsExecuted,
               plan, toolCalls, wasDoneToolCalled, outcome, error, events, turns,
               turnStart, issued, plannerCalls, validatorCalls, verdict, validation, nextCallId, faults,
               nominal, aborted, streamCancelled, ctl, invoked, heap, toolTrace, queue, core>>
vars == <<messages, maxTokens, lastOp, registered, pc, strategy, classification,
          attempt, totalStepsExecuted, plan, toolCalls, wasDoneToolCalled, outcome,
          error, events, turns, turnStart, issued, plannerCalls, validatorCalls,
          verdict, validation, nextCallId, faults, nominal, aborted, streamCancelled, ctl,
          invoked, heap, toolTrace, queue, core>>

(***************************************************************************)
(* Bounds of the model.                                                    *)
(***************************************************************************)
\* budget of the MessageManager explored by SpecMM (new MessageManager(10) in the tests)
MaxTokens == 10
\* most off-nominal answers (a tool call issued by the model, a failing model,
\* planner, validator or classifier) the environment gives in one execute call
MaxFaults == 2

(***************************************************************************)
(* MessageManager                                                          *)
(***************************************************************************)
CHARS_PER_TOKEN == 4
TOKENS_PER_MESSAGE == 3
DEFAULT_MAX_TOKENS == 8192

\* Math.ceil(n / d) for naturals
Ceil(n, d) == (n + d - 1) \div d

\* The four message classes.  tool_calls is the JSON text of an AIMessage's
\* tool_calls ("[]" when the message was built from a string, which makes the
\* field an empty array); tool_call_id is a ToolMessage's identifier.
SystemMessage(c) == [type |-> "system", content |-> c, tool_calls |-> "", tool_call_id |-> ""]
HumanMessage(c)  == [type |-> "human",  content |-> c, tool_calls |-> "", tool_call_id |-> ""]
AIMessage(c)     == [type |-> "ai",     content |-> c, tool_calls |-> "[]", tool_call_id |-> ""]
ToolMessage(c, id) == [type |-> "tool", content |-> c, tool_calls |-> "", tool_call_id |-> id]

\* estimated cost of one message (the body of the loop of getTokenCount)
messageTokens(msg) ==
  TOKENS_PER_MESSAGE
  + Ceil(Len(msg.content), CHARS_PER_TOKEN)
  + (IF msg.type = "ai" /\ msg.tool_calls # ""
       THEN Ceil(Len(msg.tool_calls), CHARS_PER_TOKEN) ELSE 0)
  + (IF msg.type = "tool" /\ msg.tool_call_id # ""
       THEN Ceil(Len(msg.tool_call_id), CHARS_PER_TOKEN) ELSE 0)

\* getTokenCount: the for loop over the entries; total[i] is the count after i entries
getTokenCount(msgs) ==
  LET total[i \in 0..Len(msgs)] ==
        IF i = 0 THEN 0 ELSE total[i - 1] + messageTokens(msgs[i])
  IN  total[Len(msgs)]

remaining(msgs, max) ==
  IF max - getTokenCount(msgs) > 0 THEN max - getTokenCount(msgs) ELSE 0

\* index of the first element that is not a system message, 0 if none (findIndex = -1)
RECURSIVE findIndexNonSystem(_, _)
findIndexNonSystem(msgs, i) ==
  IF i > Len(msgs) THEN 0
  ELSE IF msgs[i].type # "system" THEN i
  ELSE findIndexNonSystem(msgs, i + 1)

\* variant of splice: the first entry is removed, whatever its kind
splice_removesFirst(msgs, i) == Tail(msgs)

\* msgs.splice(i, 1)
splice(msgs, i) == SubSeq(msgs, 1, i - 1) \o SubSeq(msgs, i + 1, Len(msgs))

\* variant of _trimIfNeeded: the loop goes on while any entry is left
RECURSIVE trimIfNeeded_untilFits(_, _)
trimIfNeeded_untilFits(msgs, max) ==
  IF getTokenCount(msgs) > max /\ Len(msgs) > 0
    THEN LET indexToRemove == findIndexNonSystem(msgs, 1)
         IN  IF indexToRemove # 0
               THEN trimIfNeeded_untilFits(splice(msgs, indexToRemove), max)
               ELSE trimIfNeeded_untilFits(Tail(msgs), max)
    ELSE msgs

\* _trimIfNeeded: while over budget and more than one entry is left, remove the
\* first non-system entry, or the first entry when only system entries are left
RECURSIVE trimIfNeeded(_, _)
trimIfNeeded(msgs, max) ==
  IF getTokenCount(msgs) > max /\ Len(msgs) > 1
    THEN LET indexToRemove == findIndexNonSystem(msgs, 1)
         IN  IF indexToRemove # 0
               THEN trimIfNeeded(splice(msgs, indexToRemove), max)
               ELSE trimIfNeeded(Tail(msgs), max)
    ELSE msgs

removeSystemMessages(msgs) == SelectSeq(msgs, LAMBDA m : m.type # "system")

\* variant of add: the new entry is put in front of the store
add_unshifts(msgs, message, max) ==
  CHOOSE trimmed \in {trimIfNeeded(pushed, max) : pushed \in {<<message>> \o msgs}} : TRUE

\* add: push, then _trimIfNeeded on the store that holds the new entry
add(msgs, message, max) ==
  CHOOSE trimmed \in {trimIfNeeded(pushed, max) : pushed \in {Append(msgs, message)}} : TRUE

addHuman(msgs, content, max) == add(msgs, HumanMessage(content), max)

addAI(msgs, content, max) == add(msgs, AIMessage(content), max)

addSystem(msgs, content, max) ==
  add(removeSystemMessages(msgs), SystemMessage(content), max)

addTool(msgs, content, toolCallId, max) == add(msgs, ToolMessage(content, toolCallId), max)

removeLast(msgs) == IF msgs = <<>> THEN msgs ELSE SubSeq(msgs, 1, Len(msgs) - 1)

(***************************************************************************)
(* SpecMM: the MessageManager alone, driven through its public methods.    *)
(***************************************************************************)
\* contents of 2, 20 and 40 characters: 1, 5 and 10 content tokens
Contents == {"ab", "a message of 20 char", "a message that is forty characters long."}
ToolCallIds == {"id_1"}
Messages ==
  {SystemMessage(c) : c \in Contents} \cup {HumanMessage(c) : c \in Contents}
  \cup {AIMessage(c) : c \in Contents}
  \cup {ToolMessage(c, id) : c \in Contents, id \in ToolCallIds}

NoMessage == [type |-> "none", content |-> "", tool_calls |-> "", tool_call_id |-> ""]

\* every tool _registerTools registers, plus the name of no tool
AllTools == {"planner_tool", "done_tool", "navigation_tool", "refresh_browser_state",
             "validator_tool", "classification_tool"}

\* no tool has been called yet
NoToolCall == [before |-> <<>>, after |-> <<>>, snapshot |-> ""]

\* no array has been handed out by getMessages() or fork() yet
NoCopies ==
  [view |-> [array |-> <<>>, aliased |-> FALSE], viewed |-> FALSE,
   fork |-> [messages |-> <<>>, maxTokens |-> 0, aliased |-> FALSE], forked |-> FALSE,
   forkBefore |-> <<>>]

\* the plan-queue BrowserAgent after its constructor, no execute() call yet
QueueIdle ==
  [pc |-> "idle", i |-> 0, currentPlan |-> <<>>, currentStepOfPlan |-> 0,
   classificationResult |-> "null", taskComplete |-> FALSE, toolCalls |-> <<>>,
   outcome |-> "pending", events |-> <<>>, iterations |-> 0, steps |-> 0,
   plannerCalls |-> 0, replanDue |-> FALSE, newPlanDue |-> FALSE, failedCalls |-> 0,
   nextCallId |-> 1, faults |-> 0, nominal |-> {}]

\* the core Agent after its constructor, no run() call yet
CoreIdle ==
  [pc |-> "idle", maxIterations |-> 0, handler |-> "none", iterationCount |-> 0,
   history |-> <<>>, toolCalls |-> <<>>, toolCallResults |-> 0, result |-> <<>>,
   outcome |-> "pending", error |-> "", emitted |-> <<>>, resume |-> "none",
   iterations |-> 0, faults |-> 0]

\* the agent of Spec before execute is called; SpecMM leaves it there
\* the Controller after its constructor: nothing executing, a fresh abort
\* controller (generation 1), no run() call yet
ControllerIdle ==
  [executing |-> FALSE, gen |-> 1, abortedGens |-> {}, userCancellation |-> FALSE,
   currentQuery |-> "null", runs |-> <<>>]

AgentIdle ==
  /\ registered = AllTools
  /\ pc = "idle"
  /\ strategy = "none"
  /\ classification = "none"
  /\ attempt = 0
  /\ totalStepsExecuted = 0
  /\ plan = <<>>
  /\ toolCalls = <<>>
  /\ wasDoneToolCalled = FALSE
  /\ outcome = "pending"
  /\ error = ""
  /\ events = <<>>
  /\ turns = 0
  /\ turnStart = 0
  /\ issued = <<>>
  /\ plannerCalls = 0
  /\ validatorCalls = 0
  /\ verdict = "none"
  /\ validation = "none"
  /\ nextCallId = 1
  /\ faults = 0
  /\ nominal = {}
  /\ aborted = FALSE
  /\ streamCancelled = FALSE
  /\ ctl = ControllerIdle
  /\ invoked = <<>>
  /\ heap = NoCopies
  /\ toolTrace = NoToolCall
  /\ queue = QueueIdle
  /\ core = CoreIdle

\* BrowserAgent._initializeExecution(task) on the store, systemPrompt being the
\* prompt generateSystemPrompt builds from the tool descriptions
initializeExecution(msgs, systemPrompt, task) ==
  addHuman(addSystem(removeSystemMessages(msgs), systemPrompt, maxTokens),
           task, maxTokens)

InitMM ==
  /\ messages = <<>>
  /\ maxTokens = MaxTokens
  /\ lastOp = [op |-> "new", msg |-> NoMessage, before |-> <<>>]
  /\ AgentIdle

Add(message) ==
  /\ messages' = add(messages, message, maxTokens)
  /\ lastOp' = [op |-> "add", msg |-> message, before |-> messages]
  /\ UNCHANGED <<maxTokens, agentVars>>

AddHuman(content) ==
  /\ messages' = addHuman(messages, content, maxTokens)
  /\ lastOp' = [op |-> "addHuman", msg |-> HumanMessage(content), before |-> messages]
  /\ UNCHANGED <<maxTokens, agentVars>>

AddAI(content) ==
  /\ messages' = addAI(messages, content, maxTokens)
  /\ lastOp' = [op |-> "addAI", msg |-> AIMessage(content), before |-> messages]
  /\ UNCHANGED <<maxTokens, agentVars>>

AddSystem(content) ==
  /\ messages' = addSystem(messages, content, maxTokens)
  /\ lastOp' = [op |-> "addSystem", msg |-> SystemMessage(content), before |-> messages]
  /\ UNCHANGED <<maxTokens, agentVars>>

AddTool(content, toolCallId) ==
  /\ messages' = addTool(messages, content, toolCallId, maxTokens)
  /\ lastOp' = [op |-> "addTool", msg |-> ToolMessage(content, toolCallId), before |-> messages]
  /\ UNCHANGED <<maxTokens, agentVars>>

RemoveLast ==
  /\ messages' = removeLast(messages)
  /\ lastOp' = [op |-> "removeLast", msg |-> NoMessage, before |-> messages]
  /\ UNCHANGED <<maxTokens, agentVars>>

Clear ==
  /\ messages' = <<>>
  /\ lastOp' = [op |-> "clear", msg |-> NoMessage, before |-> messages]
  /\ UNCHANGED <<maxTokens, agentVars>>

\* an agent that shares the store starts a task: _initializeExecution
InitializeExecution(systemPrompt, task) ==
  /\ messages' = initializeExecution(messages, systemPrompt, task)
  /\ lastOp' = [op |-> "initializeExecution", msg |-> HumanMessage(task),
                before |-> messages, prompt |-> SystemMessage(systemPrompt)]
  /\ UNCHANGED <<maxTokens, agentVars>>

NextMM ==
  \/ \E m \in Messages : Add(m)
  \/ \E c \in Contents : AddHuman(c)
  \/ \E c \in Contents : AddAI(c)
  \/ \E c \in Contents : AddSystem(c)
  \/ \E c \in Contents, id \in ToolCallIds : AddTool(c, id)
  \/ RemoveLast
  \/ Clear
  \/ \E p \in Contents, t \in Contents : InitializeExecution(p, t)

SpecMM == InitMM /\ [][NextMM]_vars

AppendOps == {"add", "addHuman", "addAI", "addSystem", "addTool"}

systemCount(msgs) == Cardinality({i \in 1..Len(msgs) : msgs[i].type = "system"})

\* C1: after every append of an entry that fits the budget by itself, the total
\* estimated cost is at most maxTokens and the entry just appended is the last
\* entry of the store (it was not evicted to satisfy the budget).
C1_AppendKeepsNewestWithinBudget ==
  (lastOp.op \in AppendOps /\ messageTokens(lastOp.msg) <= maxTokens) =>
     /\ getTokenCount(messages) <= maxTokens
     /\ messages # <<>>
     /\ messages[Len(messages)] = lastOp.msg

\* C2: after any sequence of operations the store holds at most one system
\* entry, and after addSystem(c) that single system entry has content c.
C2_AtMostOneSystemEntry ==
  /\ systemCount(messages) <= 1
  /\ lastOp.op = "addSystem" =>
       /\ systemCount(messages) = 1
       /\ \E i \in 1..Len(messages) : messages[i] = lastOp.msg

nonSystem(msgs) == SelectSeq(msgs, LAMBDA m : m.type # "system")
systemOnly(msgs) == SelectSeq(msgs, LAMBDA m : m.type = "system")
\* a is the end of b
isSuffix(a, b) == Len(a) <= Len(b) /\ a = SubSeq(b, Len(b) - Len(a) + 1, Len(b))
\* the last n entries of msgs
lastEntries(msgs, n) == SubSeq(msgs, Len(msgs) - n + 1, Len(msgs))
\* the store the last append pushed its entry on, with the entry: what
\* _trimIfNeeded started from
pushedStore ==
  IF lastOp.op = "addSystem"
    THEN Append(nonSystem(lastOp.before), lastOp.msg)
    ELSE Append(lastOp.before, lastOp.msg)
\* how many entries the last append evicted
evictedCount == Len(pushedStore) - Len(messages)

\* C22: an append evicts only when the pushed store is over the budget; the
\* non-system entries it evicts are the oldest ones, one more only while the
\* store left by the evictions so far is still over the budget; and a system
\* entry is evicted (the oldest first) only once no non-system entry is left.
C22_EvictsOldestNonSystemFirst ==
  lastOp.op \in AppendOps =>
    LET pushed == pushedStore
        keptNonSystem == Len(nonSystem(messages))
    IN  /\ evictedCount >= 0
        /\ evictedCount > 0 => getTokenCount(pushed) > maxTokens
        /\ isSuffix(nonSystem(messages), nonSystem(pushed))
        /\ isSuffix(systemOnly(messages), systemOnly(pushed))
        /\ systemOnly(messages) # systemOnly(pushed) => nonSystem(messages) = <<>>
        /\ keptNonSystem < Len(nonSystem(pushed)) =>
             getTokenCount(systemOnly(pushed)
                           \o lastEntries(nonSystem(pushed), keptNonSystem + 1)) > maxTokens
C22_Witness_TwoEvictedSystemKept ==
  /\ lastOp.op \in AppendOps /\ evictedCount >= 2
  /\ systemCount(messages) = 1 /\ systemCount(pushedStore) = 1

\* a can be obtained from b by deleting entries: the entries of a are entries
\* of b in the order they have in b
RECURSIVE isSubsequence(_, _)
isSubsequence(a, b) ==
  IF a = <<>> THEN TRUE
  ELSE IF b = <<>> THEN FALSE
  ELSE IF Head(a) = Head(b) THEN isSubsequence(Tail(a), Tail(b))
  ELSE isSubsequence(a, Tail(b))

\* C23: every operation leaves the retained entries in the order they were
\* appended in: after an append the store is an order-preserving subsequence of
\* the store before it followed by the new entry (so the new entry, if kept, is
\* the newest), and after removeLast or clear of the store before it.
C23_TrimmingPreservesOrder ==
  /\ lastOp.op \in AppendOps =>
       /\ isSubsequence(messages, Append(lastOp.before, lastOp.msg))
       /\ isSubsequence(messages, pushedStore)
  /\ lastOp.op \in {"removeLast", "clear"} => isSubsequence(messages, lastOp.before)
C23_Witness_TrimmedInOrder ==
  /\ lastOp.op \in AppendOps /\ evictedCount >= 1 /\ Len(messages) >= 2
  /\ messages[Len(messages)] = lastOp.msg

\* the content of the first system entry of msgs ("" if there is none)
systemContent(msgs) ==
  IF systemOnly(msgs) = <<>> THEN "" ELSE systemOnly(msgs)[1].content

\* C24: addSystem (which first removes the system entry) called with the
\* content of the store's system entry leaves the store as it was: the same
\* entries in the same order.
C24_ReaddingSystemIsIdentity ==
  (/\ lastOp.op = "addSystem"
   /\ systemCount(lastOp.before) = 1
   /\ lastOp.msg.content = systemContent(lastOp.before)) =>
     messages = lastOp.before

\* C38: after any append the store is not empty: trimming stops at the last
\* remaining entry, so the store exceeds the budget after an append only when
\* it holds a single entry (one of those the append started from) whose
\* estimated cost alone exceeds the budget, and that entry stays.
C38_AppendLeavesStoreNonEmpty ==
  lastOp.op \in AppendOps =>
    /\ messages # <<>>
    /\ \A i \in 1..Len(messages) : \E k \in 1..Len(pushedStore) : messages[i] = pushedStore[k]
    /\ getTokenCount(messages) > maxTokens =>
         Len(messages) = 1 /\ messageTokens(messages[1]) > maxTokens
C38_Witness_OversizedEntryStays ==
  /\ lastOp.op \in AppendOps /\ evictedCount >= 1
  /\ Len(messages) = 1 /\ messageTokens(messages[1]) > maxTokens

\* C34: after the initialization step of execute, whatever the store held
\* before, the store holds exactly one system entry, the freshly generated
\* prompt, and the task is the user entry appended after it (the last entry).
C34_InitializationInstallsPromptAndTask ==
  lastOp.op = "initializeExecution" =>
    /\ systemOnly(messages) = <<lastOp.prompt>>
    /\ Len(messages) >= 2
    /\ messages[Len(messages)] = lastOp.msg
    /\ \E i \in 1..(Len(messages) - 1) : messages[i] = lastOp.prompt

(***************************************************************************)
(* ToolManager                                                             *)
(***************************************************************************)
\* ToolManager.get(name): the tool registered under the name, if any
get(tools, name) == IF name \in tools THEN name ELSE "undefined"

(***************************************************************************)
(* BrowserAgent.execute.  One action per resumption of the async call: the *)
(* answer of the awaited collaborator, then the synchronous code up to the *)
(* next await.  The record s carries the invocation's state through the    *)
(* synchronous code; Set(s) commits it.                                    *)
(***************************************************************************)
MAX_SIMPLE_ATTEMPTS == 3
MAX_TOTAL_STEPS == 20
STEPS_PER_PLAN == 3

SYSTEM_PROMPT == "You are BrowserAgent."
TASK == "the task"
\* what an earlier task left in the store
OldStore == <<SystemMessage("old prompt"), HumanMessage("old task"), AIMessage("old answer")>>

\* the instruction of attempt a (its opening sentence; the rest repeats the task)
instruction(a) ==
  "This is attempt " \o ToString(a) \o "/" \o ToString(MAX_SIMPLE_ATTEMPTS) \o "."

\* tool results are JSON texts; parsedOk is JSON.parse(result).ok
RESULT_OK == "{ok:true}"
RESULT_NOT_OK == "{ok:false}"
parsedOk(result) == result = RESULT_OK
toolResult(o) == IF o = "ok" THEN RESULT_OK ELSE RESULT_NOT_OK

BrowserStateMessage(c) ==
  [type |-> "browser_state", content |-> "<BrowserState>" \o c \o "</BrowserState>",
   tool_calls |-> "", tool_call_id |-> ""]
removeMessagesByType(msgs, t) == SelectSeq(msgs, LAMBDA m : m.type # t)
addBrowserState(msgs, c, max) ==
  add(removeMessagesByType(msgs, "browser_state"), BrowserStateMessage(c), max)

\* what browserContext.getBrowserStateString() returns during the call with
\* identifier id: the page as it is then
snapshot(id) == "page at " \o id
\* the output field of a successful RefreshStateTool result ({message,
\* actionCount, url}), as the text addBrowserState makes of it
REFRESH_OUTPUT == "Browser state refreshed successfully."

\* RefreshStateTool.execute on the store: with a page it removes the old
\* browser-state entries and adds the fresh snapshot; without one it returns
\* an error and leaves the store alone
refreshStateTool(msgs, id, o, max) ==
  IF o = "ok" THEN addBrowserState(msgs, snapshot(id), max) ELSE msgs

Cur ==
  [messages |-> messages, pc |-> pc, strategy |-> strategy,
   classification |-> classification, attempt |-> attempt,
   totalStepsExecuted |-> totalStepsExecuted, plan |-> plan, toolCalls |-> toolCalls,
   wasDoneToolCalled |-> wasDoneToolCalled, outcome |-> outcome, error |-> error,
   events |-> events, turns |-> turns, turnStart |-> turnStart, issued |-> issued,
   plannerCalls |-> plannerCalls, validatorCalls |-> validatorCalls, verdict |-> verdict,
   validation |-> validation,
   nextCallId |-> nextCallId, faults |-> faults, nominal |-> nominal,
   streamCancelled |-> streamCancelled, invoked |-> invoked, toolTrace |-> toolTrace]

\* the state s the synchronous code ends in becomes the next state
Set(next) ==
  \E s \in {next} :
    /\ messages' = s.messages
    /\ pc' = s.pc
    /\ strategy' = s.strategy
    /\ classification' = s.classification
    /\ attempt' = s.attempt
    /\ totalStepsExecuted' = s.totalStepsExecuted
    /\ plan' = s.plan
    /\ toolCalls' = s.toolCalls
    /\ wasDoneToolCalled' = s.wasDoneToolCalled
    /\ outcome' = s.outcome
    /\ error' = s.error
    /\ events' = s.events
    /\ turns' = s.turns
    /\ turnStart' = s.turnStart
    /\ issued' = s.issued
    /\ plannerCalls' = s.plannerCalls
    /\ validatorCalls' = s.validatorCalls
    /\ verdict' = s.verdict
    /\ validation' = s.validation
    /\ nextCallId' = s.nextCallId
    /\ faults' = s.faults
    /\ nominal' = s.nominal
    /\ streamCancelled' = s.streamCancelled
    /\ invoked' = s.invoked
    /\ toolTrace' = s.toolTrace
    /\ UNCHANGED <<maxTokens, lastOp, registered, aborted, ctl, heap, queue, core>>

\* the event events.error(message, fatal) emits
errorEvent(message, fatal) ==
  (IF fatal THEN "error_fatal: " ELSE "error: ") \o message

\* variant of reject: the error leaves execute without the fatal error event
reject_withoutEvent(s, message) ==
  [s EXCEPT !.outcome = "rejected", !.error = message, !.pc = "done"]

\* the catch block of execute: events.error(message, true); throw error
reject(s, message) ==
  [s EXCEPT !.outcome = "rejected", !.error = message,
            !.events = Append(@, errorEvent(message, TRUE)), !.pc = "done"]

\* variant of complete: the completion event is emitted and the strategy goes on
complete_withoutReturn(s) == [s EXCEPT !.events = Append(@, "complete")]

\* this.events.complete(...); return, and execute resolves
complete(s) ==
  [s EXCEPT !.outcome = "resolved", !.events = Append(@, "complete"), !.pc = "done"]

\* _executeSingleTurn up to the await of the model stream
executeSingleTurn(s, instr) ==
  [s EXCEPT !.messages = addHuman(@, instr, maxTokens),
            !.turns = @ + 1, !.turnStart = Len(s.messages),
            !.issued = <<>>, !.toolCalls = <<>>, !.wasDoneToolCalled = FALSE,
            !.streamCancelled = FALSE, !.invoked = <<>>,
            !.pc = "await_llm"]

ERR_SIMPLE == "Simple task failed to complete after 3 attempts."
ERR_STEPS == "Task did not complete within the maximum of 20 steps."
ERR_PLANNING == "Planning failed. Could not generate next steps."
ERR_LLM == "model call failed"
ERR_TOOL == "tool invocation failed"

\* variant of simpleAttempt: the exhaustion message is also appended to the store
simpleAttempt_recordsExhaustion(s, a) ==
  IF a <= MAX_SIMPLE_ATTEMPTS
    THEN executeSingleTurn([s EXCEPT !.attempt = a], instruction(a))
    ELSE reject([s EXCEPT !.attempt = a, !.messages = addAI(@, ERR_SIMPLE, maxTokens)],
                ERR_SIMPLE)

\* iteration a of the for loop of _executeSimpleTaskStrategy, and the throw after it
simpleAttempt(s, a) ==
  IF a <= MAX_SIMPLE_ATTEMPTS
    THEN executeSingleTurn([s EXCEPT !.attempt = a], instruction(a))
    ELSE reject([s EXCEPT !.attempt = a], ERR_SIMPLE)

\* _executeSimpleTaskStrategy after the await of a turn
afterSimpleTurn(s, isTaskCompleted) ==
  IF isTaskCompleted THEN complete(s) ELSE simpleAttempt(s, s.attempt + 1)

\* variant of multiLoop: leaving the while loop returns instead of throwing
multiLoop_returnsAtLimit(s) ==
  IF s.totalStepsExecuted < MAX_TOTAL_STEPS
    THEN [s EXCEPT !.plannerCalls = @ + 1, !.verdict = "none", !.pc = "await_planner"]
    ELSE [s EXCEPT !.outcome = "resolved", !.pc = "done"]

\* the while condition of _executeMultiStepStrategy, then _createMultiStepPlan up
\* to the await of the planner, or the throw after the loop
multiLoop(s) ==
  IF s.totalStepsExecuted < MAX_TOTAL_STEPS
    THEN [s EXCEPT !.plannerCalls = @ + 1, !.verdict = "none", !.pc = "await_planner"]
    ELSE reject(s, ERR_STEPS)

\* _validateTaskCompletion up to the await of the validator; without the tool it
\* returns isComplete: true at once
validateTaskCompletion(s) ==
  IF get(registered, "validator_tool") = "undefined"
    THEN complete([s EXCEPT !.validatorCalls = @ + 1, !.verdict = "complete",
                            !.validation = "not_registered"])
    ELSE [s EXCEPT !.validatorCalls = @ + 1, !.pc = "await_validator"]

\* variant of planLoop: the for loop does not break at the global limit
planLoop_noBreak(s) ==
  IF s.plan = <<>> THEN validateTaskCompletion(s)
  ELSE executeSingleTurn([s EXCEPT !.totalStepsExecuted = @ + 1, !.plan = Tail(@)],
                         Head(s.plan))

\* the for loop over plan.steps: break at the global limit, else the next turn
planLoop(s) ==
  IF s.plan = <<>> THEN validateTaskCompletion(s)
  ELSE IF s.totalStepsExecuted >= MAX_TOTAL_STEPS
    THEN validateTaskCompletion([s EXCEPT !.plan = <<>>])
  ELSE executeSingleTurn([s EXCEPT !.totalStepsExecuted = @ + 1, !.plan = Tail(@)],
                         Head(s.plan))

\* variant of afterMultiTurn: the loop goes on after a turn that signalled completion
afterMultiTurn_ignoresCompletion(s, isTaskCompleted) == planLoop(s)

\* _executeMultiStepStrategy after the await of a turn
afterMultiTurn(s, isTaskCompleted) ==
  IF isTaskCompleted THEN complete(s) ELSE planLoop(s)

\* the strategy that awaited the turn resumes with its result
afterTurn(s, completed) ==
  IF s.strategy = "simple" THEN afterSimpleTurn(s, completed)
  ELSE afterMultiTurn(s, completed)

\* variant of invoke: the loop calls the tools of all remaining calls before
\* it awaits the first
invoke_allAtOnce(s) ==
  [s EXCEPT !.pc = "await_tool",
            !.invoked = @ \o [i \in 1..Len(s.toolCalls) |-> s.toolCalls[i].id]]

\* const result = await tool.func(args): the tool of the next call is called
\* and _processToolCalls is suspended until it settles
invoke(s) ==
  [s EXCEPT !.pc = "await_tool", !.invoked = Append(@, Head(s.toolCalls).id)]

\* the for loop of _processToolCalls from the next call on: a call whose tool
\* is not registered is skipped, a registered tool is awaited; after the last
\* call _processToolCalls and _executeSingleTurn return wasDoneToolCalled
RECURSIVE processToolCalls(_)
processToolCalls(s) ==
  IF s.toolCalls = <<>> THEN afterTurn(s, s.wasDoneToolCalled)
  ELSE IF get(registered, Head(s.toolCalls).name) = "undefined"
    THEN processToolCalls([s EXCEPT !.toolCalls = Tail(@)])
  ELSE invoke(s)

\* variant of recordToolResult: any done_tool result sets the completion flag
recordToolResult_doneWithoutOk(s, result) ==
  LET call == Head(s.toolCalls)
      ok == parsedOk(result)
      m1 == IF call.name = "refresh_browser_state" /\ ok
              THEN addBrowserState(s.messages, REFRESH_OUTPUT, maxTokens)
              ELSE s.messages
      m2 == addTool(m1, result, call.id, maxTokens)
  IN  [s EXCEPT !.messages = m2,
                !.wasDoneToolCalled = IF call.name = "done_tool" THEN TRUE ELSE @,
                !.toolCalls = Tail(@)]

\* the rest of one iteration of _processToolCalls once tool.func has returned
recordToolResult(s, result) ==
  LET call == Head(s.toolCalls)
      ok == parsedOk(result)
      m1 == IF call.name = "refresh_browser_state" /\ ok
              THEN addBrowserState(s.messages, REFRESH_OUTPUT, maxTokens)
              ELSE s.messages
      m2 == addTool(m1, result, call.id, maxTokens)
  IN  [s EXCEPT !.messages = m2,
                !.wasDoneToolCalled = IF call.name = "done_tool" /\ ok THEN TRUE ELSE @,
                !.toolCalls = Tail(@)]

\* variant of afterLLM: the text of the response is recorded even when empty
afterLLM_recordsEmptyText(s, content, calls) ==
  IF calls # <<>>
    THEN processToolCalls([s EXCEPT !.messages = addAI(@, "", maxTokens),
                                    !.issued = calls, !.toolCalls = calls])
  ELSE afterTurn([s EXCEPT !.messages = addAI(@, content, maxTokens)], FALSE)

\* the rest of _executeSingleTurn once the stream has ended
afterLLM(s, content, calls) ==
  IF calls # <<>>
    THEN processToolCalls([s EXCEPT !.messages = addAI(@, "", maxTokens),
                                    !.issued = calls, !.toolCalls = calls])
  ELSE IF content # ""
    THEN afterTurn([s EXCEPT !.messages = addAI(@, content, maxTokens)], FALSE)
  ELSE afterTurn(s, FALSE)

\* variant of isSimpleTask: a failed classification counts as a simple task
isSimpleTask_failedIsSimple(o) == o # "complex"

\* what _classifyTask returns for each way the classification tool can behave
isSimpleTask(o) == o = "simple"

\* execute after _classifyTask: taskClassified, then the strategy
delegate(s, o) ==
  LET simple == isSimpleTask(o)
      s1 == [s EXCEPT !.classification = o,
                      !.events = Append(@, IF simple THEN "classified_simple"
                                                     ELSE "classified_complex"),
                      !.strategy = IF simple THEN "simple" ELSE "multi"]
  IN  IF simple THEN simpleAttempt(s1, 1) ELSE multiLoop(s1)

----------------------------------------------------------------------------
\* an off-nominal answer of collaborator c costing n is still allowed
MayDeviate(c, n) == c \notin nominal /\ n <= faults
deviated(s, n) == [s EXCEPT !.faults = @ - n]
answeredNominally(s, c) == [s EXCEPT !.nominal = @ \cup {c}]

\* The store is the execution context's: empty, or left by an earlier task.
\* _registerTools registers every tool, each under the name its factory gives
\* it; the factories of the classification and the validator tool are not part
\* of the sources, so get may or may not find them under the names asked for.
Init ==
  /\ messages \in {<<>>, OldStore}
  /\ maxTokens = DEFAULT_MAX_TOKENS
  /\ lastOp = [op |-> "new", msg |-> NoMessage, before |-> <<>>]
  /\ registered \in {AllTools, AllTools \ {"classification_tool"},
                     AllTools \ {"validator_tool"}}
  /\ pc = "idle"
  /\ strategy = "none"
  /\ classification = "none"
  /\ attempt = 0
  /\ totalStepsExecuted = 0
  /\ plan = <<>>
  /\ toolCalls = <<>>
  /\ wasDoneToolCalled = FALSE
  /\ outcome = "pending"
  /\ error = ""
  /\ events = <<>>
  /\ turns = 0
  /\ turnStart = 0
  /\ issued = <<>>
  /\ plannerCalls = 0
  /\ validatorCalls = 0
  /\ verdict = "none"
  /\ validation = "none"
  /\ nextCallId = 1
  /\ faults = IF registered = AllTools THEN MaxFaults ELSE MaxFaults - 1
  /\ nominal = {}
  /\ aborted = FALSE
  /\ streamCancelled = FALSE
  /\ ctl = ControllerIdle
  /\ invoked = <<>>
  /\ heap = NoCopies
  /\ toolTrace = NoToolCall
  /\ queue = QueueIdle
  /\ core = CoreIdle

\* execute(task) up to its first await
Execute ==
  /\ pc = "idle"
  /\ LET s == [Cur EXCEPT !.messages = initializeExecution(messages, SYSTEM_PROMPT, TASK)]
     IN  IF get(registered, "classification_tool") = "undefined"
           THEN Set(delegate(s, "not_registered"))
           ELSE Set([s EXCEPT !.pc = "await_classification"])

ClassificationAnswers == {"simple", "complex"}
ClassificationFailures == {"throws", "unparseable", "not_ok"}

\* classificationTool.func settles
ClassificationReturns(o) ==
  /\ pc = "await_classification"
  /\ o \in ClassificationFailures => MayDeviate("classifier", 1)
  /\ Set(delegate(IF o \in ClassificationFailures THEN deviated(Cur, 1) ELSE Cur, o))

CallNames == {"done_tool", "navigation_tool", "refresh_browser_state", "unknown_tool"}
callId(n) == "call_" \o ToString(n)
\* the tool_calls of a response: n calls with the given names and fresh ids
calls(names) ==
  [i \in 1..Len(names) |-> [name |-> names[i], id |-> callId(nextCallId + i - 1)]]

\* the model stream ends with plain text: the nominal answer
LLMRespondsText ==
  /\ pc = "await_llm"
  /\ Set(afterLLM(answeredNominally(Cur, "llm"), "I did it.", <<>>))

\* the stream ends with nothing at all
LLMRespondsEmpty ==
  /\ pc = "await_llm"
  /\ MayDeviate("llm", 1)
  /\ Set(afterLLM(deviated(Cur, 1), "", <<>>))

\* the stream ends with tool calls (and no text)
LLMRespondsCalls(names) ==
  /\ pc = "await_llm"
  /\ MayDeviate("llm", Len(names))
  /\ Set(afterLLM([deviated(Cur, Len(names)) EXCEPT !.nextCallId = @ + Len(names)],
                  "", calls(names)))

\* getLLM, bindTools or the stream throws
LLMThrows ==
  /\ pc = "await_llm"
  /\ MayDeviate("llm", 1)
  /\ Set(reject(deviated(Cur, 1), ERR_LLM))

\* what the tool of the awaited call has done to the store of the execution
\* context by the time tool.func returns with outcome o
toolFunc(s, o) ==
  LET call == Head(s.toolCalls)
      refresh == call.name = "refresh_browser_state"
      after == IF refresh THEN refreshStateTool(s.messages, call.id, o, maxTokens)
               ELSE s.messages
  IN  [s EXCEPT !.messages = after,
                !.toolTrace = [before |-> s.messages, after |-> after,
                               snapshot |-> IF refresh /\ o = "ok" THEN snapshot(call.id)
                                            ELSE @.snapshot]]

\* tool.func returns a result text
ToolReturns(o) ==
  /\ pc = "await_tool"
  /\ Set(processToolCalls(recordToolResult(toolFunc(Cur, o), toolResult(o))))

\* tool.func throws, or returns a text JSON.parse rejects
ToolThrows ==
  /\ pc = "await_tool"
  /\ Set(reject(Cur, ERR_TOOL))

plannerResult(ok, n) ==
  IF ok THEN "{ok:true,steps:" \o ToString(n) \o "}" ELSE RESULT_NOT_OK
steps(n) == [i \in 1..n |-> "step " \o ToString(i)]

\* variant of afterPlanner: an empty plan is recovered locally by planning again
afterPlanner_replansOnEmptyPlan(s, ok, n) ==
  LET result == plannerResult(ok, n)
      m == addTool(addAI(s.messages, "", maxTokens), result, "planner_call", maxTokens)
      s1 == [s EXCEPT !.messages = m, !.plan = IF ok THEN steps(n) ELSE <<>>]
  IN  IF s1.plan = <<>> THEN multiLoop(s1) ELSE planLoop(s1)

\* the rest of _createMultiStepPlan and of the loop body once the planner returned
afterPlanner(s, ok, n) ==
  LET result == plannerResult(ok, n)
      m == addTool(addAI(s.messages, "", maxTokens), result, "planner_call", maxTokens)
      s1 == [s EXCEPT !.messages = m, !.plan = IF ok THEN steps(n) ELSE <<>>]
  IN  IF s1.plan = <<>> THEN reject(s1, ERR_PLANNING) ELSE planLoop(s1)

\* plannerTool.func returns (it catches its own errors)
PlannerReturns(ok, n) ==
  /\ pc = "await_planner"
  /\ IF ok /\ n = STEPS_PER_PLAN
       THEN Set(afterPlanner(answeredNominally(Cur, "planner"), ok, n))
       ELSE /\ MayDeviate("planner", 1)
            /\ Set(afterPlanner(deviated(Cur, 1), ok, n))

\* Array.prototype.join
RECURSIVE join(_, _)
join(texts, separator) ==
  IF texts = <<>> THEN ""
  ELSE IF Len(texts) = 1 THEN texts[1]
  ELSE texts[1] \o separator \o join(Tail(texts), separator)

\* what a validator that finds the task incomplete reports
REASONING == "cart is still empty"
SUGGESTIONS == <<"open the cart", "press checkout">>

\* the text _executeMultiStepStrategy builds from a validation result
validationMessage(reasoning, suggestions) ==
  "Validation result: " \o reasoning \o "\nSuggestions: " \o join(suggestions, ", ")

\* variant of afterValidation: only the reasoning is passed on to the planner
afterValidation_reasoningOnly(s, isComplete, reasoning, suggestions) ==
  IF isComplete THEN complete([s EXCEPT !.verdict = "complete"])
  ELSE multiLoop(IF Len(suggestions) > 0
                   THEN [s EXCEPT !.verdict = "incomplete",
                                  !.messages = addAI(@, "Validation result: " \o reasoning,
                                                     maxTokens)]
                   ELSE [s EXCEPT !.verdict = "incomplete"])

\* _executeMultiStepStrategy after the await of _validateTaskCompletion
afterValidation(s, isComplete, reasoning, suggestions) ==
  IF isComplete THEN complete([s EXCEPT !.verdict = "complete"])
  ELSE multiLoop(IF Len(suggestions) > 0
                   THEN [s EXCEPT !.verdict = "incomplete",
                                  !.messages = addAI(@, validationMessage(reasoning, suggestions),
                                                     maxTokens)]
                   ELSE [s EXCEPT !.verdict = "incomplete"])

\* what _validateTaskCompletion returns for each way the validator can behave
validationVerdict(v) ==
  CASE v = "complete" ->
         [isComplete |-> TRUE, reasoning |-> "all done", suggestions |-> <<>>]
    [] v = "incomplete" ->
         [isComplete |-> FALSE, reasoning |-> REASONING, suggestions |-> SUGGESTIONS]
    [] v = "incomplete_no_suggestions" ->
         [isComplete |-> FALSE, reasoning |-> REASONING, suggestions |-> <<>>]
    [] OTHER ->
         [isComplete |-> TRUE, reasoning |-> "Validation failed - continuing execution",
          suggestions |-> <<>>]

ValidatorAnswers == {"complete", "incomplete", "incomplete_no_suggestions",
                     "not_ok", "throws", "unparseable"}
ValidationFailures == {"not_ok", "throws", "unparseable"}

\* validatorTool.func settles
ValidatorReturns(v) ==
  /\ pc = "await_validator"
  /\ LET r == validationVerdict(v)
         s == [Cur EXCEPT !.validation = v]
     IN  IF v = "incomplete"
           THEN Set(afterValidation(answeredNominally(s, "validator"),
                                    r.isComplete, r.reasoning, r.suggestions))
           ELSE /\ MayDeviate("validator", 1)
                /\ Set(afterValidation(deviated(s, 1),
                                       r.isComplete, r.reasoning, r.suggestions))

\* the user, or a new run, raises the abort signal of the execution context
\* (cancelExecution) while execute is pending; nothing in execute reads it
Cancel ==
  /\ pc \notin {"idle", "done"}
  /\ ~aborted
  /\ faults >= 1
  /\ aborted' = TRUE
  /\ streamCancelled' = (pc = "await_llm")
  /\ faults' = faults - 1
  /\ UNCHANGED <<messages, maxTokens, lastOp, registered, pc, strategy, classification,
                 attempt, totalStepsExecuted, plan, toolCalls, wasDoneToolCalled,
                 outcome, error, events, turns, turnStart, issued, plannerCalls,
                 validatorCalls, verdict, validation, nextCallId, nominal, ctl,
                 invoked, heap, toolTrace, queue, core>>

CallSeqs == UNION {[1..n -> CallNames] : n \in 1..MaxFaults}

Next ==
  \/ Execute
  \/ \E o \in ClassificationAnswers \cup ClassificationFailures : ClassificationReturns(o)
  \/ LLMRespondsText
  \/ LLMRespondsEmpty
  \/ \E names \in CallSeqs : LLMRespondsCalls(names)
  \/ LLMThrows
  \/ \E o \in {"ok", "not_ok"} : ToolReturns(o)
  \/ ToolThrows
  \/ \E ok \in BOOLEAN, n \in 0..(STEPS_PER_PLAN + 1) : PlannerReturns(ok, n)
  \/ \E v \in ValidatorAnswers : ValidatorReturns(v)
  \/ Cancel

Spec == Init /\ [][Next]_vars

\* the scheduler resumes the call whenever an awaited collaborator has settled
FairSpec == Spec /\ WF_vars(Next)

(***************************************************************************)
(* Properties of BrowserAgent.execute                                      *)
(***************************************************************************)
settled == pc = "done"
hasText(text) == \E i \in 1..Len(messages) : messages[i].content = text
lastEvent == IF events = <<>> THEN "none" ELSE events[Len(events)]
\* the calls of the current turn the dispatch loop has already passed
passed == SubSeq(issued, 1, Len(issued) - Len(toolCalls))
\* the dispatch loop of the current turn has passed every call
dispatched == issued # <<>> /\ toolCalls = <<>>
issuedIds == {issued[i].id : i \in 1..Len(issued)}
\* the tool-result entries the store holds for the calls of the current turn
turnResults ==
  SelectSeq(messages, LAMBDA m : m.type = "tool" /\ m.tool_call_id \in issuedIds)
resultsFor(id) ==
  SelectSeq(messages, LAMBDA m : m.type = "tool" /\ m.tool_call_id = id)
ExhaustionErrors == {ERR_SIMPLE, ERR_STEPS}
\* the for loop of the simple strategy ran out of attempts
simpleExhausted == settled /\ strategy = "simple" /\ attempt > MAX_SIMPLE_ATTEMPTS
\* the while loop of the multi-step strategy ended on its condition
multiExhausted ==
  /\ settled /\ strategy = "multi" /\ verdict = "incomplete"
  /\ totalStepsExecuted >= MAX_TOTAL_STEPS
exhausted == simpleExhausted \/ multiExhausted

\* C3: however the classification fails (tool not registered, tool throws,
\* unparseable result, ok = false), the task is classified as not simple: the
\* failure does not settle execute, the multi-step strategy runs (the planner is
\* asked for a plan) and the simple strategy is never entered.
C3_ClassificationFailureIsComplex ==
  classification \in ClassificationFailures \cup {"not_registered"} =>
    /\ strategy = "multi"
    /\ events[1] = "classified_complex"
    /\ attempt = 0
    /\ plannerCalls >= 1
    /\ error # "" => error \in {ERR_LLM, ERR_TOOL, ERR_PLANNING, ERR_STEPS}
C3_Witness_ThrowingClassifierThenTurn == classification = "throws" /\ turns >= 1
C3_Witness_UnregisteredClassifier ==
  classification = "not_registered" /\ strategy = "multi" /\ turns >= 1

\* C4: a simple task in which no turn produces a successful done_tool result and
\* the model answers every turn runs exactly 3 turns (attempts 1, 2, 3), then
\* fails with the attempts-exhausted error, never runs a fourth turn and never
\* calls the planner or the validator.
C4_SimpleRunsExactlyThreeAttempts ==
  /\ strategy = "simple" =>
       turns = attempt \/ (settled /\ turns = MAX_SIMPLE_ATTEMPTS)
  /\ strategy = "simple" => turns <= MAX_SIMPLE_ATTEMPTS
  /\ strategy = "simple" => plannerCalls = 0 /\ validatorCalls = 0
  /\ (settled /\ strategy = "simple" /\ ~wasDoneToolCalled /\ error # ERR_LLM) =>
       /\ turns = MAX_SIMPLE_ATTEMPTS
       /\ outcome = "rejected"
       /\ error = ERR_SIMPLE

\* C5: the multi-step strategy never runs more than 20 turns; every execute
\* call settles; and a multi-step run in which no turn signalled completion and
\* no validation returned complete ends rejected, with the step-limit error only
\* once 20 steps have run.
C5_StepCeiling ==
  /\ strategy = "multi" => turns = totalStepsExecuted /\ turns <= MAX_TOTAL_STEPS
  /\ (settled /\ strategy = "multi" /\ ~wasDoneToolCalled /\ verdict # "complete") =>
       outcome = "rejected"
  /\ error = ERR_STEPS => totalStepsExecuted = MAX_TOTAL_STEPS /\ strategy = "multi"
  /\ multiExhausted => error = ERR_STEPS
doneCalls == SelectSeq(issued, LAMBDA call : call.name = "done_tool")

\* C8: when the first turn of a simple task contains a done_tool call (one such
\* call) whose result has ok = true, execute resolves after exactly one attempt
\* (one turn) and the store holds exactly one tool-result entry for done_tool.
C8_DoneInFirstTurnResolves ==
  (/\ settled /\ strategy = "simple" /\ attempt = 1
   /\ wasDoneToolCalled /\ Len(doneCalls) = 1) =>
    /\ outcome = "resolved"
    /\ turns = 1
    /\ Len(resultsFor(doneCalls[1].id)) = 1

\* C9: once the dispatch loop has passed the n tool calls of a turn, the store
\* holds n tool-result entries for them, in the order of the calls, the i-th
\* carrying the id of the i-th call.
C9_OneResultPerCallInOrder ==
  dispatched =>
    /\ Len(turnResults) = Len(issued)
    /\ \A i \in 1..Len(issued) : turnResults[i].tool_call_id = issued[i].id

\* C10: for every call the dispatch loop has passed whose tool is not
\* registered, the store holds a tool-result entry with the call's id and a
\* failure result (ok = false).
C10_UnregisteredToolGetsFailureResult ==
  \A i \in 1..Len(passed) :
    get(registered, passed[i].name) = "undefined" =>
      \E k \in 1..Len(messages) :
        /\ messages[k].type = "tool"
        /\ messages[k].tool_call_id = passed[i].id
        /\ ~parsedOk(messages[k].content)

\* C11: an exception of a tool is caught and recorded as a failed tool result
\* for its call: execute never rejects with the tool's error, and once execute
\* has settled every call of the last turn to a registered tool has its
\* tool-result entry (the calls after the throwing one were dispatched too).
C11_ToolExceptionIsCaught ==
  /\ error # ERR_TOOL
  /\ settled =>
       \A i \in 1..Len(issued) :
         get(registered, issued[i].name) # "undefined" =>
           Len(resultsFor(issued[i].id)) = 1

\* C12: once a done_tool call of a turn has returned ok = true, the remaining
\* calls of the same response are still dispatched: either the dispatch loop is
\* still awaiting one of them, or the turn has returned completed (execute
\* resolved) and the store holds one tool-result entry per call of the turn,
\* in the order of the calls.
C12_CallsAfterDoneStillDispatched ==
  wasDoneToolCalled =>
    \/ pc = "await_tool"
    \/ /\ settled
       /\ outcome = "resolved"
       /\ Len(turnResults) = Len(issued)
       /\ \A i \in 1..Len(issued) : turnResults[i].tool_call_id = issued[i].id

\* C13: when the abort signal is raised while the model stream of a turn is in
\* progress, the turn ends with a cancellation outcome: the rest of the stream
\* is not consumed (no response of that stream is taken up, so no tool call of
\* the turn is dispatched) and execute settles as cancelled.
C13_CancelMidStreamEndsTurn ==
  streamCancelled =>
    /\ issued = <<>>
    /\ pc = "await_llm" \/ (settled /\ outcome = "cancelled")

----------------------------------------------------------------------------
Errors == {ERR_SIMPLE, ERR_STEPS, ERR_PLANNING, ERR_LLM, ERR_TOOL}
\* the error events emitted so far, fatal or not
errorEvents ==
  SelectSeq(events, LAMBDA e : \E m \in Errors, f \in BOOLEAN : e = errorEvent(m, f))

\* C16: whenever execute rejects (a failure of the model call, of a tool, of
\* planning, or an exhausted ceiling left one of the strategies), exactly one
\* error event was emitted, it is fatal, it carries the message of the error
\* execute rejects with and it is the last event; and no error event is emitted
\* by an execute that does not reject.
C16_RejectionEmitsFatalError ==
  /\ outcome = "rejected" =>
       /\ settled
       /\ error \in Errors
       /\ errorEvents = <<errorEvent(error, TRUE)>>
       /\ lastEvent = errorEvent(error, TRUE)
  /\ outcome # "rejected" => errorEvents = <<>>
C16_Witness_TurnFailureRejects ==
  /\ settled /\ outcome = "rejected" /\ error = ERR_LLM
  /\ lastEvent = errorEvent(ERR_LLM, TRUE)

\* the last validation step failed: no validator registered, the invocation
\* threw, its result had ok = false or its output could not be parsed
validationFailed == validation \in ValidationFailures \cup {"not_registered"}

\* C17: a failed validation step counts as the verdict "incomplete": execute
\* does not complete on the strength of it (no completion event, no resolution
\* without a done_tool result) and the planner is asked for the next plan.
C17_ValidationFailureIsIncomplete ==
  validationFailed =>
    /\ verdict # "complete"
    /\ ~(settled /\ outcome = "resolved" /\ ~wasDoneToolCalled)
    /\ plannerCalls > 1 \/ error = ERR_STEPS

\* the planner results _createMultiStepPlan turns into an empty plan
emptyPlanResults == {plannerResult(FALSE, 0), plannerResult(TRUE, 0)}
\* the entries _createMultiStepPlan has added for planner results
plannerEntries ==
  SelectSeq(messages, LAMBDA m : m.type = "tool" /\ m.tool_call_id = "planner_call")
yieldedNoSteps ==
  \E i \in 1..Len(plannerEntries) : plannerEntries[i].content \in emptyPlanResults

\* C18: once a planner call has yielded no steps (ok = false, or a plan without
\* steps), execute has rejected with the planning error and a fatal error
\* event: that planner call is the last one, and its result is the last entry
\* of the store, so no turn was executed and nothing else was recorded after it.
C18_EmptyPlanFailsAtOnce ==
  yieldedNoSteps =>
    /\ settled /\ outcome = "rejected" /\ error = ERR_PLANNING
    /\ lastEvent = errorEvent(ERR_PLANNING, TRUE)
    /\ Len(plannerEntries) = plannerCalls
    /\ plannerEntries[plannerCalls].content \in emptyPlanResults
    /\ \A i \in 1..(plannerCalls - 1) : plannerEntries[i].content \notin emptyPlanResults
    /\ messages[Len(messages)] = plannerEntries[plannerCalls]
    /\ turns = totalStepsExecuted
C18_Witness_SecondPlanEmpty ==
  yieldedNoSteps /\ settled /\ plannerCalls = 2 /\ turns >= 1 /\ error = ERR_PLANNING

\* text contains part as a substring
contains(text, part) ==
  \E i \in 1..(Len(text) - Len(part) + 1) : SubSeq(text, i, i + Len(part) - 1) = part
\* the history the planner puts in its prompt: reader.getAll() as "type: content" lines
plannerContext(msgs) ==
  join([i \in 1..Len(msgs) |-> msgs[i].type \o ": " \o msgs[i].content], "\n")
\* the last validation step found the task incomplete
reportedIncomplete == validation \in {"incomplete", "incomplete_no_suggestions"}
\* a planner invocation that directly follows a validation is pending
replanning == pc = "await_planner" /\ plannerCalls > 1

doneRecorded ==
  \E i \in 1..Len(doneCalls) :
    \E k \in 1..Len(messages) :
      /\ messages[k].type = "tool"
      /\ messages[k].tool_call_id = doneCalls[i].id
      /\ parsedOk(messages[k].content)

\* C20 as stated: execute ends either resolved or rejected, and it ends
\* resolved with a completion event only if a done_tool result with ok = true
\* was recorded.
C20_CompletedOnlyAfterDone ==
  settled =>
    /\ outcome \in {"resolved", "rejected"}
    /\ (outcome = "resolved" /\ lastEvent = "complete") => doneRecorded
\* C20 amended: execute ends either resolved with a completion event or
\* rejected with an error; it ends resolved only if a done_tool result with
\* ok = true was recorded in the last turn or, in the multi-step strategy, the
\* validation step after a plan segment returned isComplete = true (which it
\* also does when the validator is not registered or fails); the simple
\* strategy resolves only on a recorded done_tool result.
C20_CompletedOnlyAfterDoneOrValidation ==
  settled =>
    /\ outcome \in {"resolved", "rejected"}
    /\ outcome = "rejected" => error \in Errors
    /\ outcome = "resolved" =>
         /\ lastEvent = "complete"
         /\ \/ doneRecorded
            \/ /\ strategy = "multi" /\ validatorCalls >= 1 /\ plan = <<>>
               /\ validation \in {"complete", "not_registered"} \cup ValidationFailures
               /\ verdict = "complete"
C20_Witness_ValidatedWithoutDone ==
  /\ settled /\ outcome = "resolved" /\ lastEvent = "complete"
  /\ validation = "complete" /\ ~doneRecorded /\ turns >= 1

\* the assistant entry m carries a tool call with identifier id
carriesCall(m, id) == m.type = "ai" /\ contains(m.tool_calls, id)

\* C21: every tool-result entry of the store is preceded by an assistant entry
\* that carries a tool call with the entry's call identifier.
C21_ToolResultMatchesPriorCall ==
  \A k \in 1..Len(messages) :
    messages[k].type = "tool" =>
      \E j \in 1..(k - 1) : carriesCall(messages[j], messages[k].tool_call_id)

\* index of the newest user entry of the store (0 if there is none)
lastHumanIndex ==
  LET humans == {i \in 1..Len(messages) : messages[i].type = "human"}
  IN  IF humans = {} THEN 0 ELSE CHOOSE i \in humans : \A j \in humans : j <= i
\* what the store has received since the instruction of the current turn, the
\* instruction included
turnEntries == SubSeq(messages, lastHumanIndex, Len(messages))
\* the entries that followed the assistant entry of the turn
afterAssistant == SubSeq(turnEntries, 3, Len(turnEntries))
\* the instructions the strategies give
Instructions ==
  {instruction(a) : a \in 1..MAX_SIMPLE_ATTEMPTS}
  \cup {steps(STEPS_PER_PLAN + 1)[i] : i \in 1..(STEPS_PER_PLAN + 1)}
\* the turn is under way, or it has just ended and nothing was added since
inTurn == pc \in {"await_llm", "await_tool", "await_validator"}
\* the response of the turn has arrived and carried no tool call
answeredWithoutCalls == pc = "await_validator" /\ issued = <<>>
\* the identifiers of the tool-result entries among entries, in order
resultIds(entries) ==
  LET results == SelectSeq(entries, LAMBDA m : m.type = "tool")
  IN  [i \in 1..Len(results) |-> results[i].tool_call_id]
\* the identifiers of the calls among cs whose tool is registered, in order
registeredIds(cs) ==
  LET found == SelectSeq(cs, LAMBDA call : get(registered, call.name) # "undefined")
  IN  [i \in 1..Len(found) |-> found[i].id]

\* C25 as stated: a turn adds the instruction as a user entry; then, for a
\* response with tool calls, one assistant entry followed by tool-result
\* entries only, in the order of the calls; for a response without tool calls,
\* one assistant entry with the text.
C25_TurnEntriesInOrder ==
  inTurn =>
    /\ turnEntries # <<>> /\ turnEntries[1].type = "human"
    /\ turnEntries[1].content \in Instructions
    /\ issued # <<>> =>
         /\ Len(turnEntries) >= 2 /\ turnEntries[2].type = "ai"
         /\ \A i \in 1..Len(afterAssistant) : afterAssistant[i].type = "tool"
         /\ isSubsequence(resultIds(afterAssistant), registeredIds(issued))
    /\ answeredWithoutCalls => Len(turnEntries) = 2 /\ turnEntries[2].type = "ai"
\* C25 amended: a turn adds the instruction as a user entry; then, for a
\* response with tool calls, one empty assistant entry followed by the
\* tool-result entries in the order of the calls, a successful
\* refresh_browser_state call putting one browser-state entry right before its
\* result; for a response without tool calls, the assistant text as a single
\* assistant entry if the text is not empty, and nothing if it is empty.
C25_TurnEntriesInOrderOrNone ==
  inTurn =>
    /\ turnEntries # <<>> /\ turnEntries[1] \in {HumanMessage(c) : c \in Instructions}
    /\ issued # <<>> =>
         /\ Len(turnEntries) >= 2 /\ turnEntries[2] = AIMessage("")
         /\ \A i \in 1..Len(afterAssistant) :
              \/ afterAssistant[i].type = "tool"
              \/ /\ afterAssistant[i].type = "browser_state"
                 /\ i < Len(afterAssistant)
                 /\ afterAssistant[i + 1].type = "tool"
                 /\ parsedOk(afterAssistant[i + 1].content)
                 /\ \E k \in 1..Len(issued) :
                      /\ issued[k].id = afterAssistant[i + 1].tool_call_id
                      /\ issued[k].name = "refresh_browser_state"
         /\ resultIds(afterAssistant) = registeredIds(passed)
    /\ issued = <<>> =>
         \/ turnEntries = <<turnEntries[1]>>
         \/ /\ Len(turnEntries) = 2 /\ turnEntries[2].type = "ai"
            /\ turnEntries[2].content # ""
            /\ pc = "await_validator"
C25_Witness_CallsThenResults ==
  /\ pc = "await_tool" /\ Len(issued) = 2 /\ Len(passed) = 1
  /\ Len(afterAssistant) = 2 /\ afterAssistant[1].type = "browser_state"
  /\ afterAssistant[2].type = "tool"

\* the invocations of the current turn that have not settled: the tool was
\* called and neither a result was recorded nor did the call throw
inFlight ==
  {i \in 1..Len(invoked) :
     /\ resultsFor(invoked[i]) = <<>>
     /\ ~(settled /\ error = ERR_TOOL /\ i = Len(invoked))}

\* C26: at most one tool invocation of a turn is in flight at any time; a tool
\* is called only after every call before it in the response has been dealt
\* with, the result of each earlier invocation being in the store; the calls
\* are invoked in the order of the response and none is invoked twice.
C26_SequentialDispatch ==
  /\ Cardinality(inFlight) <= 1
  /\ pc = "await_tool" <=> Cardinality(inFlight) = 1
  /\ \A i, j \in 1..Len(invoked) : invoked[i] = invoked[j] => i = j
  /\ isSubsequence(invoked, registeredIds(issued))
  /\ pc = "await_tool" =>
       /\ invoked = Append(registeredIds(passed), Head(toolCalls).id)
       /\ \A i \in 1..(Len(invoked) - 1) : Len(resultsFor(invoked[i])) = 1
C26_Witness_SecondCallAfterFirstResult ==
  /\ pc = "await_tool" /\ Len(invoked) = 2 /\ Len(issued) = 2
  /\ Len(resultsFor(invoked[1])) = 1 /\ resultsFor(invoked[2]) = <<>>

\* the browser-state entries of the store
browserStates == SelectSeq(messages, LAMBDA m : m.type = "browser_state")

\* C27: once a refresh_browser_state call has succeeded, the store holds
\* exactly one browser-state entry and it holds the snapshot obtained by the
\* last successful call.
C27_OneFreshBrowserState ==
  toolTrace.snapshot # "" =>
    browserStates = <<BrowserStateMessage(toolTrace.snapshot)>>

\* C28: the store is the same when a tool's func returns as it was when the
\* func was called.
C28_ToolsLeaveStoreAlone == toolTrace.after = toolTrace.before

\* index of the newest planner result of the store (0 if there is none)
lastPlannerIndex ==
  LET found == {i \in 1..Len(messages) :
                  messages[i].type = "tool" /\ messages[i].tool_call_id = "planner_call"}
  IN  IF found = {} THEN 0 ELSE CHOOSE i \in found : \A j \in found : j <= i
\* the turns executed since the last planner invocation returned: the
\* instructions added to the store after its result
segmentTurns ==
  Cardinality({i \in (lastPlannerIndex + 1)..Len(messages) : messages[i].type = "human"})

\* C35: between two consecutive planner invocations at most STEPS_PER_PLAN
\* turns are executed, whatever number of steps the planner returns.
C35_SegmentCappedAtStepsPerPlan ==
  (strategy = "multi" /\ plannerCalls >= 1 /\ lastPlannerIndex > 0) =>
    segmentTurns <= STEPS_PER_PLAN

\* the result of the last planner invocation, as the store holds it
lastPlan == IF lastPlannerIndex = 0 THEN "" ELSE messages[lastPlannerIndex].content
\* every step of the current plan segment has been executed as a turn
segmentExecuted == lastPlan = plannerResult(TRUE, segmentTurns)
\* the global limit ended the for loop before the last steps of the segment
segmentCutShort ==
  /\ totalStepsExecuted = MAX_TOTAL_STEPS
  /\ segmentTurns >= 1
  /\ \E n \in (segmentTurns + 1)..(STEPS_PER_PLAN + 1) : lastPlan = plannerResult(TRUE, n)
validatorInvoked == pc = "await_validator"
\* the run ended on the validator's report: completion emitted, nothing after it
endedOnValidation ==
  /\ settled /\ outcome = "resolved" /\ lastEvent = "complete"
  /\ Len(SelectSeq(events, LAMBDA e : e = "complete")) = 1
  /\ Len(plannerEntries) = plannerCalls /\ turns = totalStepsExecuted

\* C36 as stated: the validator is invoked only after every step of the current
\* plan segment has been executed and no turn signalled completion; when it
\* reports complete, the run emits completion and ends with no further
\* planner invocation or turn.
C36_ValidatorOnlyAfterSegment ==
  /\ validatorInvoked => segmentExecuted /\ ~wasDoneToolCalled
  /\ validation = "complete" => endedOnValidation
\* C36 amended: the validator is invoked only once the for loop over the current
\* plan segment has ended without a turn signalling completion: after the last
\* step of the segment, or after the turn that reached the global step limit
\* (the rest of the segment is then not executed); when it reports complete,
\* the run emits completion and ends with no further planner invocation or turn.
C36_ValidatorAfterSegmentOrLimit ==
  /\ validatorInvoked =>
       /\ ~wasDoneToolCalled
       /\ segmentExecuted \/ segmentCutShort
       /\ plan = <<>>
  /\ validation = "complete" => endedOnValidation
C36_Witness_ValidatorInvokedAtLimit ==
  /\ validatorInvoked /\ segmentCutShort /\ ~segmentExecuted
  /\ validatorCalls > 1 /\ ~wasDoneToolCalled

\* the terminal events emitted so far: completion events and fatal error events
terminalEvents ==
  SelectSeq(events, LAMBDA e : e = "complete" \/ \E m \in Errors : e = errorEvent(m, TRUE))
\* the turns, planner calls and validator calls made so far
workDone == <<turns, plannerCalls, validatorCalls>>
C37_OneTerminalEventWhenSettled ==
  /\ settled =>
       /\ Len(terminalEvents) = 1
       /\ lastEvent = terminalEvents[1]
       /\ outcome = "resolved" => terminalEvents[1] = "complete"
       /\ outcome = "rejected" => terminalEvents[1] = errorEvent(error, TRUE)
  /\ ~settled => terminalEvents = <<>>
\* C37: an execute invocation that has settled has emitted exactly one terminal
\* event, as its last event: a completion event if it resolved, a fatal error
\* event with the error's message if it rejected, never both; before it settles
\* it has emitted none; and once a terminal event is out, no turn, planner
\* call or validator call is made.
C37_ExactlyOneTerminalEvent ==
  /\ []C37_OneTerminalEventWhenSettled
  /\ [][terminalEvents # <<>> => workDone' = workDone]_vars
C37_Witness_ResolvedAfterTurns ==
  /\ settled /\ outcome = "resolved" /\ terminalEvents = <<"complete">>
  /\ turns >= 2 /\ plannerCalls >= 1

(***************************************************************************)
(* Controller.run over BaseAgent.execute and Agent.executeAgent.  A run()  *)
(* call is a record of ctl.runs; one action per resumption of the call.    *)
(* The store is the Controller's message manager (variable messages).      *)
(***************************************************************************)
MaxRuns == 2
Queries == {"query a", "query b"}

signalAborted(c) == c.gen \in c.abortedGens

\* ExecutionContext.cancelExecution(isUserInitiated): aborts the current controller
cancelExecution(c, isUserInitiated) ==
  [c EXCEPT !.abortedGens = @ \cup {c.gen}, !.userCancellation = isUserInitiated]

\* Controller.resetAbortController: a fresh controller in both objects
resetAbortController(c) == [c EXCEPT !.gen = @ + 1, !.userCancellation = FALSE]

\* Controller._internalCancel
internalCancel(c) == IF ~signalAborted(c) THEN cancelExecution(c, FALSE) ELSE c

\* addTaskMessage / addFollowUpTaskMessage of the Controller's message manager
TaskMessage(query, isFollowUp) ==
  HumanMessage((IF isFollowUp THEN "Your NEW ultimate task is " ELSE "Your ultimate task is ")
               \o query)

\* run() from the result of agent.execute on: the log line, then the finally
\* block up to the await of unlockExecution
finishRun(c, r, success, err, byAbort) ==
  [c EXCEPT !.executing = FALSE, !.currentQuery = "null",
            !.runs[r].result = IF success THEN "success" ELSE "failure",
            !.runs[r].error = err,
            !.runs[r].stoppedByAbort = byAbort,
            !.runs[r].report = IF success THEN "successful" ELSE "failed",
            !.runs[r].pc = "await_unlock"]

ctlUnchanged ==
  UNCHANGED <<maxTokens, lastOp, registered, pc, strategy, classification, attempt,
              totalStepsExecuted, plan, toolCalls, wasDoneToolCalled, outcome, error,
              events, turns, turnStart, issued, plannerCalls, validatorCalls, verdict,
              validation, nextCallId, faults, nominal, aborted, streamCancelled,
              invoked, heap, toolTrace, queue, core>>

\* run(options) up to the await of getCurrentPage
Run(query) ==
  /\ Len(ctl.runs) < MaxRuns
  /\ LET c1 == IF ctl.executing THEN internalCancel(ctl) ELSE ctl
         isFollowUp == Len(messages) > 0
         c2 == IF ~isFollowUp \/ c1.userCancellation THEN resetAbortController(c1) ELSE c1
         run == [pc |-> "await_page", query |-> query, isFollowUp |-> isFollowUp,
                 signal |-> 0, result |-> "none", error |-> "", stoppedByAbort |-> FALSE,
                 report |-> "none", overlapped |-> FALSE]
     IN  ctl' = [c2 EXCEPT !.runs = Append(@, run)]
  /\ UNCHANGED messages
  /\ ctlUnchanged

\* the runs other than r that have added their entry and have not settled
othersActive(c, r) ==
  {o \in 1..Len(c.runs) : o # r /\ c.runs[o].pc \in {"await_analysis", "await_navigation",
                                                     "await_unlock"}}

\* getCurrentPage returned: startExecution, the task message, then BaseAgent.execute
\* up to its first await (or to its return when the signal is already aborted)
PageReturns(r) ==
  /\ r \in 1..Len(ctl.runs)
  /\ ctl.runs[r].pc = "await_page"
  /\ messages' = Append(messages, TaskMessage(ctl.runs[r].query, ctl.runs[r].isFollowUp))
  /\ LET c1 == [ctl EXCEPT !.executing = TRUE, !.currentQuery = ctl.runs[r].query,
                           !.runs[r].signal = ctl.gen,
                           !.runs[r].overlapped = othersActive(ctl, r) # {}]
     IN  ctl' = IF signalAborted(c1)
                  THEN finishRun(c1, r, FALSE, "Execution aborted", TRUE)
                  ELSE [c1 EXCEPT !.runs[r].pc = "await_analysis"]
  /\ ctlUnchanged

AnalysisAnswers == {"no_navigation", "no_url", "navigate"}

\* analyzeNavigationRequest returned (its own catch turns a failure into an answer)
AnalysisReturns(r, a) ==
  /\ r \in 1..Len(ctl.runs)
  /\ ctl.runs[r].pc = "await_analysis"
  /\ ctl' = CASE a = "no_navigation" -> finishRun(ctl, r, TRUE, "", FALSE)
              [] a = "no_url" ->
                   finishRun(ctl, r, FALSE, "Navigation required but no URL provided", FALSE)
              [] OTHER -> [ctl EXCEPT !.runs[r].pc = "await_navigation"]
  /\ UNCHANGED messages
  /\ ctlUnchanged

\* navigationTool.execute settled: a result, or an exception executeAgent catches
NavigationReturns(r, success) ==
  /\ r \in 1..Len(ctl.runs)
  /\ ctl.runs[r].pc = "await_navigation"
  /\ ctl' = finishRun(ctl, r, success, IF success THEN "" ELSE "navigation failed", FALSE)
  /\ UNCHANGED messages
  /\ ctlUnchanged

\* unlockExecution returned: the rest of the finally block, run() resolves
UnlockReturns(r) ==
  /\ r \in 1..Len(ctl.runs)
  /\ ctl.runs[r].pc = "await_unlock"
  /\ ctl' = [resetAbortController(ctl) EXCEPT !.runs[r].pc = "settled"]
  /\ UNCHANGED messages
  /\ ctlUnchanged

\* Controller.cancel(), called by the user
UserCancel ==
  /\ ~signalAborted(ctl)
  /\ ctl' = cancelExecution(ctl, TRUE)
  /\ UNCHANGED messages
  /\ ctlUnchanged

InitController ==
  /\ messages = <<>>
  /\ maxTokens = DEFAULT_MAX_TOKENS
  /\ lastOp = [op |-> "new", msg |-> NoMessage, before |-> <<>>]
  /\ AgentIdle

NextController ==
  \/ \E q \in Queries : Run(q)
  \/ \E r \in 1..MaxRuns : PageReturns(r)
  \/ \E r \in 1..MaxRuns, a \in AnalysisAnswers : AnalysisReturns(r, a)
  \/ \E r \in 1..MaxRuns, success \in BOOLEAN : NavigationReturns(r, success)
  \/ \E r \in 1..MaxRuns : UnlockReturns(r)
  \/ UserCancel

SpecController == InitController /\ [][NextController]_vars

\* the run() calls that have added their entry to the store and have not settled
activeRuns == othersActive(ctl, 0)

\* C14: at most one run is active against the Controller's store at any time,
\* and no run() call added its task entry while an earlier call that had added
\* its own was still unsettled.
C14_OneActiveRunPerStore ==
  /\ Cardinality(activeRuns) <= 1
  /\ \A r \in 1..Len(ctl.runs) : ~ctl.runs[r].overlapped

\* C15: a run stopped because its abort signal was raised surfaces as a
\* cancellation: the agent's result for it is not the failure result an
\* ordinary error produces and run() reports it as cancelled, not as failed.
C15_CancellationIsDistinct ==
  \A r \in 1..Len(ctl.runs) :
    ctl.runs[r].stoppedByAbort =>
      /\ ctl.runs[r].result # "failure"
      /\ ctl.runs[r].report = "cancelled"

(***************************************************************************)
(* SpecCopies: the arrays getMessages()/getAll() and fork() hand out.  A   *)
(* JavaScript array is shared by reference; aliased records whether an     *)
(* array handed out is the store's own array, so that a write through one  *)
(* is a write to the other.                                                *)
(***************************************************************************)
\* most entries an array returned by getAll() holds after its caller's pushes
MaxViewLen == 3

CopyMessages == {HumanMessage("ab"), AIMessage("a message of 20 char")}

\* variant of getMessages: the internal array itself is returned
getMessages_returnsInternal(msgs) == [array |-> msgs, aliased |-> TRUE]

\* getMessages: return [...this.messages]
getMessages(msgs) == [array |-> msgs, aliased |-> FALSE]

\* MessageManagerReadOnly.getAll
getAll(msgs) == getMessages(msgs)

\* variant of fork: the new manager is given the array of the original
fork_sharesArray(msgs, max, includeHistory) ==
  [messages |-> IF includeHistory THEN msgs ELSE <<>>, maxTokens |-> max,
   aliased |-> includeHistory]

\* fork: a new MessageManager(this.maxTokens) whose messages is
\* [...this.messages] when includeHistory is set
fork(msgs, max, includeHistory) ==
  [messages |-> IF includeHistory THEN msgs ELSE <<>>, maxTokens |-> max,
   aliased |-> FALSE]

\* the store's array now holds next: so does every array that is that array
writeStoreArray(h, next) ==
  [h EXCEPT !.view.array = IF h.view.aliased THEN next ELSE @,
            !.fork.messages = IF h.fork.aliased THEN next ELSE @]

copiesUnchanged ==
  UNCHANGED <<maxTokens, registered, pc, strategy, classification, attempt,
              totalStepsExecuted, plan, toolCalls, wasDoneToolCalled, outcome, error,
              events, turns, turnStart, issued, plannerCalls, validatorCalls, verdict,
              validation, nextCallId, faults, nominal, aborted, streamCancelled, ctl,
              invoked, toolTrace, queue, core>>

InitCopies ==
  /\ messages = <<>>
  /\ maxTokens = MaxTokens
  /\ lastOp = [op |-> "new", msg |-> NoMessage, before |-> <<>>]
  /\ AgentIdle

\* messageManager.add(message) on the original
StoreAdd(message) ==
  /\ messages' = add(messages, message, maxTokens)
  /\ heap' = [writeStoreArray(heap, messages') EXCEPT !.forkBefore = heap.fork.messages]
  /\ lastOp' = [op |-> "add", msg |-> message, before |-> messages]
  /\ copiesUnchanged

\* const view = readOnlyView.getAll()
GetAll ==
  /\ heap' = [heap EXCEPT !.view = getAll(messages), !.viewed = TRUE,
                          !.forkBefore = heap.fork.messages]
  /\ lastOp' = [op |-> "getAll", msg |-> NoMessage, before |-> messages]
  /\ UNCHANGED messages
  /\ copiesUnchanged

\* the array view now holds next: if it is the store's array, so does the store
writeView(next) ==
  /\ messages' = IF heap.view.aliased THEN next ELSE messages
  /\ heap' = [(IF heap.view.aliased THEN writeStoreArray(heap, next) ELSE heap)
                EXCEPT !.view.array = next, !.forkBefore = heap.fork.messages]

\* view.push(message) by the caller that holds the returned array
ViewPush(message) ==
  /\ heap.viewed
  /\ Len(heap.view.array) < MaxViewLen
  /\ writeView(Append(heap.view.array, message))
  /\ lastOp' = [op |-> "viewPush", msg |-> message, before |-> messages]
  /\ copiesUnchanged

\* view.pop() by the caller that holds the returned array
ViewPop ==
  /\ heap.viewed
  /\ heap.view.array # <<>>
  /\ writeView(SubSeq(heap.view.array, 1, Len(heap.view.array) - 1))
  /\ lastOp' = [op |-> "viewPop", msg |-> NoMessage, before |-> messages]
  /\ copiesUnchanged

\* const forked = messageManager.fork(includeHistory)
Fork(includeHistory) ==
  /\ heap' = [heap EXCEPT !.fork = fork(messages, maxTokens, includeHistory),
                          !.forked = TRUE, !.forkBefore = heap.fork.messages]
  /\ lastOp' = [op |-> IF includeHistory THEN "fork" ELSE "forkEmpty",
                msg |-> NoMessage, before |-> messages]
  /\ UNCHANGED messages
  /\ copiesUnchanged

\* forked.add(message)
ForkAdd(message) ==
  /\ heap.forked
  /\ LET next == add(heap.fork.messages, message, heap.fork.maxTokens)
     IN  /\ messages' = IF heap.fork.aliased THEN next ELSE messages
         /\ heap' = [(IF heap.fork.aliased THEN writeStoreArray(heap, next) ELSE heap)
                       EXCEPT !.fork.messages = next, !.forkBefore = heap.fork.messages]
  /\ lastOp' = [op |-> "forkAdd", msg |-> message, before |-> messages]
  /\ copiesUnchanged

NextCopies ==
  \/ \E m \in CopyMessages : StoreAdd(m)
  \/ GetAll
  \/ \E m \in CopyMessages : ViewPush(m)
  \/ ViewPop
  \/ \E includeHistory \in BOOLEAN : Fork(includeHistory)
  \/ \E m \in CopyMessages : ForkAdd(m)

SpecCopies == InitCopies /\ [][NextCopies]_vars

\* C29: getAll() returns the entries the store holds at the call, so it shows
\* every append made before it; pushing on or popping from a returned array
\* leaves the store, and so what the next getAll() returns, as it was.
C29_GetAllReturnsFreshCopy ==
  /\ lastOp.op = "getAll" => heap.view.array = messages /\ messages = lastOp.before
  /\ lastOp.op \in {"viewPush", "viewPop"} =>
       /\ messages = lastOp.before
       /\ getAll(messages).array = lastOp.before
C29_Witness_PushedOnReturnedArray ==
  /\ lastOp.op = "viewPush" /\ messages # <<>>
  /\ Len(heap.view.array) = Len(messages) + 1

\* C30: fork(true) gives a manager with the entries and the budget of the
\* original at that time; an append to the fork leaves the original as it was
\* and an append to the original leaves the fork as it was.
C30_ForkIsIndependent ==
  /\ lastOp.op = "fork" =>
       /\ heap.fork.messages = messages
       /\ heap.fork.maxTokens = maxTokens
       /\ messages = lastOp.before
  /\ lastOp.op = "forkAdd" => messages = lastOp.before
  /\ (lastOp.op = "add" /\ heap.forked) => heap.fork.messages = heap.forkBefore
C30_Witness_ForkGrewAlone ==
  /\ lastOp.op = "forkAdd" /\ messages # <<>>
  /\ Len(heap.fork.messages) = Len(messages) + 1
  /\ SubSeq(heap.fork.messages, 1, Len(messages)) = messages

(***************************************************************************)
(* Agent.run of the core Agent (lib/agent/core/Agent.ts) with the          *)
(* AgentEventEmitter.  The run() call is the record core; one action per   *)
(* resumption of the call.  core.resume names the code that follows the    *)
(* awaited emit.                                                           *)
(***************************************************************************)
\* largest config.maxIterations explored (its default is 10)
MaxIterations == 3

\* what a subscribed handler does with an event; "none": nothing is subscribed
Handlers == {"none", "returns", "throws", "never_returns"}

ERR_MAX_ITERATIONS == "Maximum iterations reached"
ERR_PROVIDER == "provider failed"
ERR_REFERENCE == "toolCallResults is not defined"

\* the tools registered with the Agent
CoreTools == {"search"}
CoreCallNames == {"search", "unknown"}

\* history.addMessage({role, ...})
addMessage(history, role) == Append(history, role)

\* await this.eventEmitter.emit(event): the event is handed to the handlers
\* and run() is suspended until emit resolves
emit(c, type, resume) ==
  [c EXCEPT !.emitted = Append(@, type), !.pc = "await_emit", !.resume = resume]

\* the AgentResult of a run that was not completed
failure(c, message) ==
  <<[success |-> FALSE, iterations |-> c.iterationCount, error |-> message]>>

\* run() after the while loop: the final result if none was set, agent.end
afterLoop(c) ==
  emit([c EXCEPT !.result = IF @ = <<>> THEN failure(c, ERR_MAX_ITERATIONS) ELSE @],
       "agent.end", "return")

\* the while condition of run(), then the start of an iteration
loop(c) ==
  IF c.iterationCount < c.maxIterations
    THEN emit(c, "iteration.start", "executeIteration")
    ELSE afterLoop(c)

\* run() after an iteration that is not done: incrementIteration, iteration.end
afterIteration(c) ==
  emit([c EXCEPT !.iterationCount = @ + 1], "iteration.end", "loop")

\* the catch block of run() up to the await of emit
catchBlock(c, message) == emit([c EXCEPT !.error = message], "error", "catch_return")

\* the return statement of the catch block: it reads toolCallResults, which is
\* declared with const inside the try block and is out of scope here, so the
\* evaluation throws a ReferenceError and run() rejects with it
returnFromCatch(c) ==
  [c EXCEPT !.pc = "done", !.outcome = "rejected", !.error = ERR_REFERENCE]

\* the for loop of executeIteration over the tool calls, from the next call
\* on: executeToolCall records an unknown tool and returns, and emits
\* tool.start for a registered one
RECURSIVE executeToolCalls(_)
executeToolCalls(c) ==
  IF c.toolCalls = <<>> THEN afterIteration(c)
  ELSE IF Head(c.toolCalls) \notin CoreTools
    THEN executeToolCalls([c EXCEPT !.history = addMessage(@, "tool"),
                                    !.toolCalls = Tail(@)])
  ELSE emit(c, "tool.start", "execute")

\* the code that follows the emit run() was suspended in
resumeAt(c) ==
  CASE c.resume = "init" ->
         loop([c EXCEPT !.history = addMessage(addMessage(@, "system"), "user")])
    [] c.resume = "loop" -> loop(c)
    [] c.resume = "executeIteration" ->
         [c EXCEPT !.pc = "await_model", !.iterations = @ + 1]
    [] c.resume = "execute" -> [c EXCEPT !.pc = "await_tool"]
    [] c.resume = "next_call" -> executeToolCalls([c EXCEPT !.toolCalls = Tail(@)])
    [] c.resume = "return" -> [c EXCEPT !.pc = "done", !.outcome = "returned"]
    [] OTHER -> returnFromCatch(c)

coreUnchanged ==
  UNCHANGED <<messages, maxTokens, lastOp, registered, pc, strategy, classification,
              attempt, totalStepsExecuted, plan, toolCalls, wasDoneToolCalled, outcome,
              error, events, turns, turnStart, issued, plannerCalls, validatorCalls,
              verdict, validation, nextCallId, faults, nominal, aborted, streamCancelled,
              ctl, invoked, heap, toolTrace, queue>>

InitCore ==
  /\ messages = <<>>
  /\ maxTokens = DEFAULT_MAX_TOKENS
  /\ lastOp = [op |-> "new", msg |-> NoMessage, before |-> <<>>]
  /\ AgentIdle

\* agent.run(task, provider) of an Agent configured with maxIterations and with
\* the handler subscribed, up to the await of the first emit
CoreRun(maxIterations, handler) ==
  /\ core.pc = "idle"
  /\ core' = emit([core EXCEPT !.maxIterations = maxIterations, !.handler = handler,
                               !.faults = MaxFaults],
                  "agent.start", "init")
  /\ coreUnchanged

\* emit resolves: every handler has returned, or thrown (emit catches it); a
\* handler that never returns leaves emit, and run(), suspended
EmitResolves ==
  /\ core.pc = "await_emit"
  /\ core.handler # "never_returns"
  /\ core' = resumeAt(core)
  /\ coreUnchanged

\* the provider answers with text that holds no completion phrase
ModelRespondsText ==
  /\ core.pc = "await_model"
  /\ core' = afterIteration([core EXCEPT !.history = addMessage(@, "assistant")])
  /\ coreUnchanged

\* the provider answers with text that isTaskComplete recognises
ModelRespondsComplete ==
  /\ core.pc = "await_model"
  /\ core' = afterLoop([core EXCEPT
                          !.history = addMessage(@, "assistant"),
                          !.result = <<[success |-> TRUE,
                                        iterations |-> core.iterationCount + 1,
                                        error |-> ""]>>])
  /\ coreUnchanged

\* the provider answers with tool calls
ModelRespondsCalls(names) ==
  /\ core.pc = "await_model"
  /\ core.faults >= Len(names)
  /\ core' = executeToolCalls([core EXCEPT !.history = addMessage(@, "assistant"),
                                           !.toolCalls = names,
                                           !.faults = @ - Len(names)])
  /\ coreUnchanged

\* the provider, or the processing of its stream, throws
ModelThrows ==
  /\ core.pc = "await_model"
  /\ core.faults >= 1
  /\ core' = catchBlock([core EXCEPT !.faults = @ - 1], ERR_PROVIDER)
  /\ coreUnchanged

\* tool.execute returns a result
CoreToolReturns(success) ==
  /\ core.pc = "await_tool"
  /\ core' = emit([core EXCEPT !.history = addMessage(@, "tool"),
                               !.toolCallResults = @ + 1],
                  "tool.end", "next_call")
  /\ coreUnchanged

\* tool.execute throws: executeToolCall catches it and records the error
CoreToolThrows ==
  /\ core.pc = "await_tool"
  /\ core' = emit([core EXCEPT !.history = addMessage(@, "tool")], "tool.end", "next_call")
  /\ coreUnchanged

CoreCallSeqs == UNION {[1..n -> CoreCallNames] : n \in 1..MaxFaults}

NextCore ==
  \/ \E n \in 1..MaxIterations, h \in Handlers : CoreRun(n, h)
  \/ EmitResolves
  \/ ModelRespondsText
  \/ ModelRespondsComplete
  \/ \E names \in CoreCallSeqs : ModelRespondsCalls(names)
  \/ ModelThrows
  \/ \E success \in BOOLEAN : CoreToolReturns(success)
  \/ CoreToolThrows

SpecCore == InitCore /\ [][NextCore]_vars

\* the provider, the tools and the event loop always get to answer
FairSpecCore == SpecCore /\ WF_vars(NextCore)

coreSettled == core.pc = "done"

\* C31: a subscribed event handler that is slow or never returns cannot keep
\* Agent.run from reaching a terminal state: every run() call settles.
C31_HandlerCannotBlockRun == (core.pc # "idle") ~> coreSettled

\* C39: Agent.run executes at most maxIterations iterations and settles only
\* by returning an AgentResult, never by rejecting: with success = false and
\* the error 'Maximum iterations reached' when the limit is hit without
\* completion, with success = false and the message of the error when
\* something inside the loop throws.
C39_RunAlwaysReturnsResult ==
  /\ core.iterations <= core.maxIterations
  /\ core.outcome # "rejected"
  /\ coreSettled =>
       /\ core.outcome = "returned" /\ Len(core.result) = 1
       /\ (core.iterationCount = core.maxIterations /\ core.error = "") =>
            core.result = failure(core, ERR_MAX_ITERATIONS)
       /\ core.error # "" => core.result = failure(core, core.error)

(***************************************************************************)
(* BrowserAgent.execute of the variant that keeps its plan as a queue      *)
(* (lib/agent/BrowserAgent.ts: currentPlan, MAX_ITERATIONS).  The agent is *)
(* the record queue, its store the variable messages; one action per       *)
(* resumption of the execute() call.  The record s carries the agent and   *)
(* the store through the synchronous code; QSet(s) commits it.             *)
(***************************************************************************)
MAX_ITERATIONS == 20
NUM_STEPS_SHORT_PLAN == 3

MSG_MAX_ITERATIONS == "Max iterations reached"
MSG_SIMPLE == "Classified as simple task - executing directly without planning"
\* the plan _createNewPlan builds for a simple task
DIRECT_PLAN == <<"Execute task directly: " \o TASK>>

QCur ==
  [f \in DOMAIN queue \cup {"messages"} |->
     IF f = "messages" THEN messages ELSE queue[f]]

queueUnchanged ==
  UNCHANGED <<maxTokens, lastOp, registered, pc, strategy, classification, attempt,
              totalStepsExecuted, plan, toolCalls, wasDoneToolCalled, outcome, error,
              events, turns, turnStart, issued, plannerCalls, validatorCalls, verdict,
              validation, nextCallId, faults, nominal, aborted, streamCancelled,
              ctl, invoked, heap, toolTrace, core>>

\* the state s the synchronous code ends in becomes the next state
QSet(next) ==
  \E s \in {next} :
    /\ messages' = s.messages
    /\ queue' = [f \in DOMAIN queue |-> s[f]]
    /\ queueUnchanged

\* _updateMessageManagerWithToolCall(toolName, args, result, toolCallId)
updateMessageManagerWithToolCall(msgs, toolName, result, toolCallId) ==
  addTool(msgs, "Called " \o toolName \o " tool and got result: " \o result,
          IF toolCallId = "" THEN toolName \o "_result" ELSE toolCallId, maxTokens)

\* variant of finishExecute: execute resolves without a word in the store
finishExecute_silent(s) == [s EXCEPT !.outcome = "resolved", !.pc = "done"]

\* execute after the for loop: the message for a task that was not completed,
\* then execute resolves
finishExecute(s) ==
  IF s.taskComplete
    THEN [s EXCEPT !.outcome = "resolved", !.pc = "done"]
    ELSE [s EXCEPT !.events = Append(@, errorEvent("Max iterations reached without completing task",
                                                   FALSE)),
                   !.messages = addAI(@, MSG_MAX_ITERATIONS, maxTokens),
                   !.outcome = "resolved", !.pc = "done"]

\* the loop body from currentPlan.shift() up to the await of _executeStep
executeNextStep(s) ==
  [s EXCEPT !.currentPlan = Tail(@), !.currentStepOfPlan = @ + 1,
            !.steps = @ + 1, !.pc = "await_llm"]

\* execute once _createNewPlan has returned
afterCreateNewPlan(s) ==
  IF s.currentPlan = <<>>
    THEN finishExecute([s EXCEPT !.events = Append(@, errorEvent("Failed to create execution plan",
                                                                 TRUE))])
    ELSE executeNextStep(s)

\* _createNewPlan up to its first await: the direct plan of a simple task, or
\* the call of the planner
createNewPlan(s) ==
  IF s.classificationResult = "simple"
    THEN afterCreateNewPlan([s EXCEPT !.currentPlan = DIRECT_PLAN, !.currentStepOfPlan = 0,
                                      !.newPlanDue = FALSE,
                                      !.messages = addAI(@, MSG_SIMPLE, maxTokens)])
    ELSE [s EXCEPT !.plannerCalls = @ + 1, !.replanDue = FALSE, !.newPlanDue = FALSE,
                   !.pc = "await_planner"]

\* the for statement of execute with loop variable s.i: the condition, then
\* the body up to its first await
forLoop(s) ==
  IF s.i < MAX_ITERATIONS
    THEN IF s.currentPlan = <<>>
           THEN createNewPlan([s EXCEPT !.iterations = @ + 1])
           ELSE executeNextStep([s EXCEPT !.iterations = @ + 1])
    ELSE finishExecute(s)

\* continue, or the end of the loop body: i++ and the next iteration
continue(s) == forLoop([s EXCEPT !.i = @ + 1])

\* variant of discardPlan: the failure is recorded and the plan is kept
discardPlan_keepsPlan(s) ==
  [s EXCEPT !.replanDue = TRUE, !.newPlanDue = TRUE, !.failedCalls = @ + 1]

\* a dispatched tool call has failed: this.currentPlan = []
discardPlan(s) ==
  [s EXCEPT !.currentPlan = <<>>, !.replanDue = TRUE, !.newPlanDue = TRUE,
            !.failedCalls = @ + 1]

\* the tools _registerTools of this variant registers
QueueTools == {"planner_tool", "done_tool", "navigation_tool", "tab_operations_tool",
               "classification_tool"}
RESULT_NOT_FOUND == "{ok:false,error:not found}"
\* the results a tool call can have: ok, ok = false, and ok with an error
\* text that includes 'page changed'
RESULT_PAGE_CHANGED == "{ok:true,error:page changed}"
ToolOutcomes == {"ok", "not_ok", "page_changed"}
resultText(o) ==
  CASE o = "ok" -> RESULT_OK [] o = "page_changed" -> RESULT_PAGE_CHANGED [] OTHER -> RESULT_NOT_OK

\* the for loop of _processToolCalls from the next call on: a call whose tool
\* is not registered is recorded as failed and the plan is dropped; a
\* registered tool is awaited; after the last call it returns false
RECURSIVE processToolCallsOfStep(_)
processToolCallsOfStep(s) ==
  IF s.toolCalls = <<>> THEN continue([s EXCEPT !.taskComplete = FALSE])
  ELSE IF get(QueueTools, Head(s.toolCalls).name) = "undefined"
    THEN LET call == Head(s.toolCalls)
         IN  processToolCallsOfStep(discardPlan(
               [s EXCEPT !.events = Append(@, errorEvent("Tool " \o call.name \o " not found",
                                                         FALSE)),
                         !.messages = updateMessageManagerWithToolCall(
                                        @, call.name, RESULT_NOT_FOUND, call.id),
                         !.toolCalls = Tail(@)]))
  ELSE [s EXCEPT !.pc = "await_tool"]

\* the rest of one iteration of _processToolCalls once the result is known
\* (ok is result.ok; a throwing tool gives ok = false)
afterToolCall(s, result) ==
  LET call == Head(s.toolCalls)
      ok == result # RESULT_NOT_OK
      s1 == [s EXCEPT !.messages = updateMessageManagerWithToolCall(
                                     @, call.name, result, call.id),
                      !.toolCalls = Tail(@)]
  IN  IF call.name = "done_tool" /\ ok
        THEN finishExecute([s1 EXCEPT !.events = Append(@, "complete"),
                                      !.taskComplete = TRUE])
      ELSE IF ~ok THEN processToolCallsOfStep(discardPlan(s1))
      ELSE IF result = RESULT_PAGE_CHANGED
        THEN processToolCallsOfStep([s1 EXCEPT !.currentPlan = <<>>])
      ELSE processToolCallsOfStep(s1)

\* execute once _executeStep has returned a response without tool calls:
\* _executeStep has added the streamed text, execute adds the content again
afterStepText(s, content) ==
  IF content = "" THEN continue(s)
  ELSE continue([s EXCEPT !.messages = addAI(addAI(@, content, maxTokens), content,
                                             maxTokens)])

\* the rest of _createNewPlan once the planner has returned, and execute after it
afterPlannerResult(s, ok, n) ==
  LET s1 == [s EXCEPT !.messages = updateMessageManagerWithToolCall(
                                     @, "planner_tool", plannerResult(ok, n), "")]
  IN  IF ok
        THEN afterCreateNewPlan([s1 EXCEPT !.currentPlan = steps(n),
                                           !.currentStepOfPlan = 0])
        ELSE afterCreateNewPlan([s1 EXCEPT !.events = Append(@, errorEvent("Failed to create plan",
                                                                          FALSE))])

\* _classifyTask once the classification is known, then the first iteration
afterClassification(s, o) ==
  forLoop([s EXCEPT !.classificationResult = IF o = "simple" THEN "simple" ELSE "complex",
                    !.i = 0])

QMayDeviate(c, n) == c \notin queue.nominal /\ n <= queue.faults

InitQueue ==
  /\ messages \in {<<>>, OldStore}
  /\ maxTokens = DEFAULT_MAX_TOKENS
  /\ lastOp = [op |-> "new", msg |-> NoMessage, before |-> <<>>]
  /\ AgentIdle

\* execute(task) up to the await of the classification tool
QExecute ==
  /\ queue.pc = "idle"
  /\ LET s == [QCur EXCEPT !.messages = addHuman(addSystem(@, SYSTEM_PROMPT, maxTokens),
                                                 TASK, maxTokens),
                           !.faults = MaxFaults]
     IN  IF get(QueueTools, "classification_tool") = "undefined"
           THEN QSet(afterClassification(s, "not_registered"))
           ELSE QSet([s EXCEPT !.pc = "await_classification"])

\* classificationTool.func returns: the result is recorded, then parsed
QClassificationReturns(o) ==
  /\ queue.pc = "await_classification"
  /\ o \in {"unparseable", "not_ok"} => QMayDeviate("classifier", 1)
  /\ LET s == IF o \in {"unparseable", "not_ok"} THEN deviated(QCur, 1) ELSE QCur
     IN  QSet(afterClassification(
                [s EXCEPT !.messages = updateMessageManagerWithToolCall(
                                         @, "classification_tool", o, "")], o))

\* classificationTool.func throws
QClassificationThrows ==
  /\ queue.pc = "await_classification"
  /\ QMayDeviate("classifier", 1)
  /\ QSet(afterClassification(deviated(QCur, 1), "throws"))

\* plannerTool.func returns a result
QPlannerReturns(ok, n) ==
  /\ queue.pc = "await_planner"
  /\ IF ok /\ n = NUM_STEPS_SHORT_PLAN
       THEN QSet(afterPlannerResult(answeredNominally(QCur, "planner"), ok, n))
       ELSE /\ QMayDeviate("planner", 1)
            /\ QSet(afterPlannerResult(deviated(QCur, 1), ok, n))

\* plannerTool.func throws, or returns a text JSON.parse rejects
QPlannerThrows ==
  /\ queue.pc = "await_planner"
  /\ QMayDeviate("planner", 1)
  /\ QSet(afterCreateNewPlan([deviated(QCur, 1) EXCEPT
                                !.events = Append(@, errorEvent("Planning failed", FALSE))]))

\* the model stream of the step ends with plain text: the nominal answer
QLLMRespondsText ==
  /\ queue.pc = "await_llm"
  /\ QSet(afterStepText(answeredNominally(QCur, "llm"), "Continuing work"))

\* the stream ends with nothing at all
QLLMRespondsEmpty ==
  /\ queue.pc = "await_llm"
  /\ QMayDeviate("llm", 1)
  /\ QSet(afterStepText(deviated(QCur, 1), ""))

\* the stream ends with tool calls (and no text)
QLLMRespondsCalls(names) ==
  /\ queue.pc = "await_llm"
  /\ QMayDeviate("llm", Len(names))
  /\ QSet(processToolCallsOfStep(
            [deviated(QCur, Len(names)) EXCEPT
               !.toolCalls = [k \in 1..Len(names) |->
                                [name |-> names[k], id |-> callId(queue.nextCallId + k - 1)]],
               !.nextCallId = @ + Len(names)]))

\* _executeStep throws: the plan is dropped and the loop continues
QLLMThrows ==
  /\ queue.pc = "await_llm"
  /\ QMayDeviate("llm", 1)
  /\ QSet(continue([deviated(QCur, 1) EXCEPT
                      !.events = Append(@, errorEvent("Step execution failed: " \o ERR_LLM,
                                                      FALSE)),
                      !.currentPlan = <<>>]))

\* tool.func returns a result
QToolReturns(o) ==
  /\ queue.pc = "await_tool"
  /\ QSet(afterToolCall(QCur, resultText(o)))

\* tool.func throws, or returns a text JSON.parse rejects
QToolThrows ==
  /\ queue.pc = "await_tool"
  /\ QSet(afterToolCall(QCur, RESULT_NOT_OK))

QCallNames == {"done_tool", "navigation_tool", "unknown_tool"}
QCallSeqs == UNION {[1..n -> QCallNames] : n \in 1..MaxFaults}

NextQueue ==
  \/ QExecute
  \/ \E o \in {"simple", "complex", "unparseable", "not_ok"} : QClassificationReturns(o)
  \/ QClassificationThrows
  \/ \E ok \in BOOLEAN, n \in 0..NUM_STEPS_SHORT_PLAN : QPlannerReturns(ok, n)
  \/ QPlannerThrows
  \/ QLLMRespondsText
  \/ QLLMRespondsEmpty
  \/ \E names \in QCallSeqs : QLLMRespondsCalls(names)
  \/ QLLMThrows
  \/ \E o \in ToolOutcomes : QToolReturns(o)
  \/ QToolThrows

SpecQueue == InitQueue /\ [][NextQueue]_vars

queueSettled == queue.pc = "done"
\* the entries execute appends for a task it did not complete
maxIterationEntries == SelectSeq(messages, LAMBDA m : m = AIMessage(MSG_MAX_ITERATIONS))

\* C32: execute of the plan-queue variant runs at most MAX_ITERATIONS loop
\* iterations and never rejects; when no step produced a successful done call
\* it resolves having appended the assistant entry 'Max iterations reached' to
\* the store, once, as the last entry.
C32_MaxIterationsHandledGracefully ==
  /\ queue.iterations <= MAX_ITERATIONS /\ queue.i <= MAX_ITERATIONS
  /\ queue.steps <= queue.iterations
  /\ queue.outcome # "rejected"
  /\ (queueSettled /\ ~queue.taskComplete) =>
       /\ queue.outcome = "resolved"
       /\ maxIterationEntries = <<AIMessage(MSG_MAX_ITERATIONS)>>
       /\ messages[Len(messages)] = AIMessage(MSG_MAX_ITERATIONS)
  /\ (~queueSettled \/ queue.taskComplete) => maxIterationEntries = <<>>
C32_Witness_TwentyIterations ==
  /\ queueSettled /\ ~queue.taskComplete /\ queue.outcome = "resolved"
  /\ queue.i = MAX_ITERATIONS /\ queue.iterations = MAX_ITERATIONS
  /\ queue.steps = MAX_ITERATIONS /\ queue.plannerCalls > 1
  /\ messages[Len(messages)] = AIMessage(MSG_MAX_ITERATIONS)

\* C33 as stated: whenever a dispatched tool call fails (tool not found,
\* invocation throws, result ok = false) the remaining steps of the current
\* plan are discarded, and the planner is invoked again before any further
\* step is executed.
C33_FailedCallForcesPlanner ==
  /\ queue.newPlanDue => queue.currentPlan = <<>>
  /\ queue.pc = "await_llm" => ~queue.replanDue
\* C33 amended: whenever a dispatched tool call fails the remaining steps of
\* the current plan are discarded, and a new plan is created before any
\* further step is executed: by the planner, invoked again, unless the task
\* was classified as simple, in which case the one-step direct plan is built
\* again without the planner.
C33_FailedCallForcesNewPlan ==
  /\ queue.newPlanDue => queue.currentPlan = <<>> /\ queue.pc # "await_llm"
  /\ (queue.pc = "await_llm" /\ queue.replanDue) =>
       /\ queue.classificationResult = "simple"
       /\ queue.plannerCalls = 0
       /\ messages[Len(messages)] = AIMessage(MSG_SIMPLE)
C33_Witness_ReplannedAfterFailure ==
  /\ queue.classificationResult = "complex" /\ queue.failedCalls = 1
  /\ queue.pc = "await_llm" /\ ~queue.replanDue
  /\ queue.plannerCalls = 2 /\ queue.steps = 2
  /\ Len(queue.currentPlan) = NUM_STEPS_SHORT_PLAN - 1

====
